---- MODULE Spec2Model ----
(***************************************************************************)
(* Finance dashboard: the Dashboard component's derived views              *)
(* (frontend/src/components/Dashboard.tsx), the metric matching of its     *)
(* comparison view, and the eligibility scoring engine the dashboard reads *)
(* its results from.                                                       *)
(*                                                                         *)
(* Numbers.  A percentage is a JavaScript number; the model keeps it in    *)
(* tenths of a percent, so that 20.5 % is the integer 205 and the code's   *)
(* cut point 20 is P(20, 0) = 200.  A missing percentage (undefined, null) *)
(* is a value that is not a number: [has |-> FALSE].                       *)
(***************************************************************************)
EXTENDS Integers, Sequences, FiniteSets, TLC

VARIABLES
    results,                \* data.analysisResult.results: the array object the component reads
    received,               \* the results as /analyze returned them (never written by the model)
    mounted,                \* the Dashboard has rendered at least once
    activeTab,              \* useState('overview')
    caseScoresData,         \* datasets[0].data of the Case Scores chart
    scoreDistributionData,  \* datasets[0].data of the Score Distribution chart
    topPerformers,          \* the rows of the Top Performing Cases card
    resultsList,            \* the rows of the Detailed Results card
    scoreColors,            \* the colour class of each row of the Detailed Results card
    criteriaData,           \* data.criteriaData.criteria: the criteria array the component reads
    selectedCriterion,      \* selectedCriteria of the first component: useState<string>('Revenue')
    effectPending,          \* the useEffect of the first render has not run yet
    criteriaForComparison,  \* the memoized criteriaForComparison
    comparisonData,         \* getComparisonData()
    criteriaTabIdeal,       \* idealValue of each criterion of the Criteria tab
    avgScore,               \* the Average Score card
    approvedCount,          \* results whose status is 'Eligible'
    rejectedCount,          \* results whose status is 'Not Eligible'
    reviewCount,            \* results whose status is 'Review Required'
    radarData,              \* getRadarData()
    caseData,               \* result.case_data of one result: the case's metrics, in key order
    selectedCriteria,       \* useState<string>('Revenue')
    caseValue,              \* caseValues[..].value of the comparison, or not yet computed
    criteria,               \* the criteria of an /analyze run, in sheet order
    caseRecord,             \* the metrics of the case an /analyze run scores
    analysis,               \* the outcome of the /analyze run
    uploadProgress,         \* FileUpload: useState(0)
    uploadedFile,           \* FileUpload: useState<File | null>(null): the drop that set it, 0 for null
    error,                  \* FileUpload: useState<string | null>(null)
    analysisData,           \* App: useState<AnalysisData | null>(null)
    isLoading,              \* App, Home: useState(false)
    instance,               \* which mount of FileUpload the upload view shows
    drops,                  \* the files dropped so far
    flows                   \* the run of onDrop / processExcelFile of every dropped file

dashVars == <<results, received, mounted, activeTab, caseScoresData,
              scoreDistributionData, topPerformers, resultsList, scoreColors,
              criteriaData, selectedCriterion, effectPending, criteriaForComparison,
              comparisonData, criteriaTabIdeal, avgScore, approvedCount, rejectedCount,
              reviewCount, radarData>>

compareVars == <<caseData, selectedCriteria, caseValue>>

scoreVars == <<criteria, caseRecord, analysis>>

uploadVars == <<uploadProgress, uploadedFile, error, analysisData, isLoading, instance, drops, flows>>

-----------------------------------------------------------------------------
(* Bounds of the model *)

MaxCases == 6

MaxBinCases == 3

-----------------------------------------------------------------------------
(* Numbers and values *)

\* w.t percent, in tenths of a percent
P(w, t) == w * 10 + t

NoPct == [has |-> FALSE, v |-> 0]

Pct(w, t) == [has |-> TRUE, v |-> P(w, t)]

\* `x || 0` on a percentage: a missing value (and 0 itself) reads as 0
OrZero(x) == IF x.has THEN x.v ELSE 0

Min(a, b) == IF a <= b THEN a ELSE b

\* percentages of the ranking runs: a missing one (read as 0), 55 and 85
RankPcts == {NoPct, Pct(55, 0), Pct(85, 0)}

\* percentages of the binning runs: both sides of every cut point
BinPcts == {NoPct, Pct(0, 0), Pct(20, 0), Pct(20, 5), Pct(40, 0), Pct(55, 0),
            Pct(59, 9), Pct(60, 0), Pct(79, 9), Pct(80, 0), Pct(80, 5), Pct(85, 0)}

\* the result lists of at most n cases with percentages from pcts; case_id is
\* the case's position in the /analyze response
ResultLists(pcts, n) ==
    UNION {{[i \in 1..k |-> [case_id |-> i, percentage |-> f[i]]] : f \in [1..k -> pcts]}
           : k \in 0..n}

-----------------------------------------------------------------------------
(* Dashboard.tsx: pure helpers *)

\* getScoreColor with the top band cut by > instead of >=
getScoreColor_StrictHigh(score) ==
    IF score > P(80, 0) THEN "text-green-600"
    ELSE IF score >= P(60, 0) THEN "text-yellow-600"
    ELSE "text-red-600"

\* getScoreColor (also the inline bands of caseScoresData)
getScoreColor(score) ==
    IF score >= P(80, 0) THEN "text-green-600"
    ELSE IF score >= P(60, 0) THEN "text-yellow-600"
    ELSE "text-red-600"

\* ScoreBin with the cut points compared by < instead of <=
ScoreBin_Strict(score) ==
    IF score < P(20, 0) THEN 1
    ELSE IF score < P(40, 0) THEN 2
    ELSE IF score < P(60, 0) THEN 3
    ELSE IF score < P(80, 0) THEN 4
    ELSE 5

\* the index (1..5) of the bin the forEach body of getScoreDistributionData increments
ScoreBin(score) ==
    IF score <= P(20, 0) THEN 1
    ELSE IF score <= P(40, 0) THEN 2
    ELSE IF score <= P(60, 0) THEN 3
    ELSE IF score <= P(80, 0) THEN 4
    ELSE 5

RECURSIVE DistributionFrom_SkipZero(_, _, _)
\* DistributionFrom whose first bin asks for score > 0: a score of 0 falls through every branch
DistributionFrom_SkipZero(rs, i, distribution) ==
    IF i > Len(rs) THEN distribution
    ELSE LET score == OrZero(rs[i].percentage)
             b == ScoreBin(score)
         IN DistributionFrom_SkipZero(rs, i + 1,
                IF score > 0 THEN [distribution EXCEPT ![b] = @ + 1] ELSE distribution)

RECURSIVE DistributionFrom(_, _, _)
\* results.forEach from index i on, accumulating into distribution
DistributionFrom(rs, i, distribution) ==
    IF i > Len(rs) THEN distribution
    ELSE LET score == OrZero(rs[i].percentage)
             b == ScoreBin(score)
         IN DistributionFrom(rs, i + 1, [distribution EXCEPT ![b] = @ + 1])

getScoreDistributionData(rs) == DistributionFrom(rs, 1, <<0, 0, 0, 0, 0>>)

\* the comparator of the Top Performing Cases sort: (b.percentage || 0) - (a.percentage || 0)
CompareDesc(a, b) == OrZero(b.percentage) - OrZero(a.percentage)

RECURSIVE InsertSorted_Unstable(_, _)
\* an insertion that puts x in front of the elements it ties with
InsertSorted_Unstable(sorted, x) ==
    IF sorted = <<>> THEN <<x>>
    ELSE IF CompareDesc(Head(sorted), x) < 0
         THEN <<Head(sorted)>> \o InsertSorted_Unstable(Tail(sorted), x)
         ELSE <<x>> \o sorted

RECURSIVE InsertSorted(_, _)
\* x placed behind every element that does not sort after it (a stable insertion)
InsertSorted(sorted, x) ==
    IF sorted = <<>> THEN <<x>>
    ELSE IF CompareDesc(Head(sorted), x) <= 0
         THEN <<Head(sorted)>> \o InsertSorted(Tail(sorted), x)
         ELSE <<x>> \o sorted

RECURSIVE SortFrom(_, _, _)
SortFrom(rs, i, sorted) ==
    IF i > Len(rs) THEN sorted
    ELSE SortFrom(rs, i + 1, InsertSorted(sorted, rs[i]))

\* Array.prototype.sort with CompareDesc: stable (ECMAScript 2019), and in place
ArraySort(rs) == SortFrom(rs, 1, <<>>)

\* Array.prototype.slice(0, n)
Slice0(rs, n) == SubSeq(rs, 1, Min(n, Len(rs)))

TopCount == 5

Tabs == {"overview", "results", "analytics", "criteria"}

-----------------------------------------------------------------------------
(* Strings: a string is the sequence of its characters *)

Str_Revenue == <<"R", "e", "v", "e", "n", "u", "e">>

Str_revenue == <<"r", "e", "v", "e", "n", "u", "e">>

Str_REVENUE == <<"R", "E", "V", "E", "N", "U", "E">>

Str_AnnualRevenue == <<"A", "n", "n", "u", "a", "l", " ", "R", "e", "v", "e", "n", "u", "e">>

Str_rev == <<"r", "e", "v">>

Str_Debt == <<"D", "e", "b", "t">>

Str_Sector == <<"S", "e", "c", "t", "o", "r">>

Str_Tech == <<"T", "e", "c", "h">>

Str_tech == <<"t", "e", "c", "h">>

Str_abc == <<"a", "b", "c">>

Str_Blank == <<" ", " ">>

\* String.prototype.toLowerCase on one character of the model's alphabet
LowerChar(c) ==
    CASE c = "A" -> "a"
      [] c = "D" -> "d"
      [] c = "E" -> "e"
      [] c = "N" -> "n"
      [] c = "R" -> "r"
      [] c = "S" -> "s"
      [] c = "T" -> "t"
      [] c = "U" -> "u"
      [] c = "V" -> "v"
      [] OTHER -> c

\* String.prototype.toLowerCase
ToLowerCase(str) == [i \in 1..Len(str) |-> LowerChar(str[i])]

\* String.prototype.includes: sub occurs in str (the empty string occurs in every string)
Includes(str, sub) ==
    \E i \in 0..(Len(str) - Len(sub)) : SubSeq(str, i + 1, i + Len(sub)) = sub

\* String.prototype.trim, from the left and from the right
RECURSIVE TrimLeft(_)
TrimLeft(str) == IF str # <<>> /\ Head(str) = " " THEN TrimLeft(Tail(str)) ELSE str

RECURSIVE TrimRight(_)
TrimRight(str) ==
    IF str # <<>> /\ str[Len(str)] = " " THEN TrimRight(SubSeq(str, 1, Len(str) - 1)) ELSE str

\* the literal 'N/A'
Str_NA == <<"N", "/", "A">>

\* the literal 'Best performance'
Str_BestPerformance ==
    <<"B", "e", "s", "t", " ", "p", "e", "r", "f", "o", "r", "m", "a", "n", "c", "e">>

Str_REVENUE_ == <<"R", "E", "V", "E", "N", "U", "E", " ">>

Str_sales == <<"s", "a", "l", "e", "s">>

Str_turnover == <<"t", "u", "r", "n", "o", "v", "e", "r">>

Str_Below50 == <<"<", "5", "0">>

Str_50to150 == <<"5", "0", "-", "1", "5", "0">>

Str_Above150 == <<">", "1", "5", "0">>

Digit(d) ==
    CASE d = 0 -> "0" [] d = 1 -> "1" [] d = 2 -> "2" [] d = 3 -> "3" [] d = 4 -> "4"
      [] d = 5 -> "5" [] d = 6 -> "6" [] d = 7 -> "7" [] d = 8 -> "8" [] d = 9 -> "9"

\* String(n), and the property name of an array index, for a whole number n >= 0
RECURSIVE NumberToString(_)
NumberToString(n) ==
    IF n < 10 THEN <<Digit(n)>> ELSE NumberToString(n \div 10) \o <<Digit(n % 10)>>

-----------------------------------------------------------------------------
(* Dashboard.tsx: the criteria and their ideal values.  A string property   *)
(* that is absent is the empty string: the code reads these properties with *)
(* || and &&, which take undefined and '' alike.  Interval scores and the   *)
(* 0-10 scores of a result are whole numbers.                               *)

\* a number property that is absent (undefined or null), or present
Undefined == [has |-> FALSE, v |-> 0]

Defined(n) == [has |-> TRUE, v |-> n]

\* one entry of scoring_intervals
ScoringInterval(interval, range, condition, score) ==
    [interval |-> interval, range |-> range, condition |-> condition, score |-> score]

\* one entry of criteriaData.criteria
CriteriaItem(parameter, min_value, scoring_intervals) ==
    [parameter |-> parameter, min_value |-> min_value, scoring_intervals |-> scoring_intervals]

\* Array.prototype.find(interval => interval.score === 10): its index, 0 when there is none
RECURSIVE FindScore10(_, _)
FindScore10(intervals, k) ==
    IF k > Len(intervals) THEN 0
    ELSE IF intervals[k].score = 10 THEN k
    ELSE FindScore10(intervals, k + 1)

\* Array.prototype.reduce((best, current) => current.score > best.score ? current : best)
RECURSIVE ReduceHighest(_, _, _)
ReduceHighest(intervals, k, best) ==
    IF k > Len(intervals) THEN best
    ELSE ReduceHighest(intervals, k + 1,
                       IF intervals[k].score > best.score THEN intervals[k] ELSE best)

\* the Criteria tab: idealValue of a criterion; the empty string is a value the
\* JSX does not show ({idealValue && ...})
CriteriaTabIdealValue(criterion) ==
    LET intervals == criterion.scoring_intervals
        ten == FindScore10(intervals, 1)
    IN IF Len(intervals) > 0
       THEN IF ten # 0
            THEN intervals[ten].interval
            ELSE ReduceHighest(intervals, 2, intervals[1]).interval
       ELSE <<>>

\* .filter(interval => interval.score === 10).sort((a, b) => b.score - a.score):
\* the comparator is 0 on every pair the filter lets through, the sort keeps their order
FilterScore10(intervals) == SelectSeq(intervals, LAMBDA interval : interval.score = 10)

\* criteriaForComparison: idealValue of one entry
ComparisonIdealValue(criteriaEntry) ==
    LET best == FilterScore10(criteriaEntry.scoring_intervals)
    IN IF best # <<>>
       THEN IF best[1].range # <<>> THEN best[1].range
            ELSE IF best[1].condition # <<>> THEN best[1].condition
            ELSE Str_BestPerformance
       ELSE Str_NA

\* criteriaForComparison: Object.entries of the criteria array names every entry
\* by its index ('0', '1', ...)
CriteriaForComparison(criteriaSource) ==
    [i \in 1..Len(criteriaSource) |->
        [name |-> NumberToString(i - 1), idealValue |-> ComparisonIdealValue(criteriaSource[i])]]

-----------------------------------------------------------------------------
(* Dashboard.tsx: the summary figures and the radar chart.  A quotient of   *)
(* two whole numbers is kept exactly, as a fraction in lowest terms.        *)

\* a property of a result object: the results of some analyses carry no
\* eligibility_status, individual_scores or metric_scores (the property reads undefined)
Has(result, property) == property \in DOMAIN result

RECURSIVE GCD(_, _)
GCD(a, b) == IF b = 0 THEN a ELSE GCD(b, a % b)

\* num / den, den > 0
Fraction(num, den) ==
    LET g == GCD(num, den)
    IN IF num = 0 THEN [num |-> 0, den |-> 1] ELSE [num |-> num \div g, den |-> den \div g]

RECURSIVE SumFrom(_, _)
\* the sum of the numbers of a list from the k-th on
SumFrom(nums, k) == IF k > Len(nums) THEN 0 ELSE nums[k] + SumFrom(nums, k + 1)

\* the percentages that are numbers other than 0 divide their own sum
AvgScore_OverScored(rs) ==
    LET scored == SelectSeq(rs, LAMBDA r : OrZero(r.percentage) # 0)
    IN IF Len(scored) > 0
       THEN Fraction(SumFrom([i \in 1..Len(scored) |-> OrZero(scored[i].percentage)], 1),
                     Len(scored))
       ELSE Fraction(0, 1)

\* avgScore, in tenths of a percent
AvgScore(rs) ==
    IF Len(rs) > 0
    THEN Fraction(SumFrom([i \in 1..Len(rs) |-> OrZero(rs[i].percentage)], 1), Len(rs))
    ELSE Fraction(0, 1)

StatusOf(result) ==
    IF Has(result, "eligibility_status") THEN result.eligibility_status ELSE "undefined"

\* 'Not Eligible' counts every result that is not 'Eligible'
CountStatus_Rest(rs, status) ==
    IF status = "Not Eligible"
    THEN Len(SelectSeq(rs, LAMBDA r : StatusOf(r) # "Eligible"))
    ELSE Len(SelectSeq(rs, LAMBDA r : StatusOf(r) = status))

\* results.filter(result => result.eligibility_status === status).length
CountStatus(rs, status) == Len(SelectSeq(rs, LAMBDA r : StatusOf(r) = status))

\* result.individual_scores || {}: an object is the sequence of its entries, in key order
IndividualScores(result) ==
    IF Has(result, "individual_scores") THEN result.individual_scores ELSE <<>>

\* Object.keys
ObjectKeys(object) == [i \in 1..Len(object) |-> object[i].key]

\* object?.[key] || 0
RECURSIVE ReadOrZero(_, _, _)
ReadOrZero(object, k, key) ==
    IF k > Len(object) THEN 0
    ELSE IF object[k].key = key THEN object[k].value
    ELSE ReadOrZero(object, k + 1, key)

NoRadarData == [has |-> FALSE, labels |-> <<>>, data |-> <<>>]

\* getRadarData: labels and datasets[0].data, or null
getRadarData(rs) ==
    IF Len(rs) = 0 THEN NoRadarData
    ELSE LET criteriaNames == ObjectKeys(IndividualScores(rs[1]))
             scores(name) == [i \in 1..Len(rs) |-> ReadOrZero(IndividualScores(rs[i]), 1, name)]
         IN [has |-> TRUE,
             labels |-> criteriaNames,
             data |-> [n \in 1..Len(criteriaNames) |->
                          Fraction(SumFrom(scores(criteriaNames[n]), 1), Len(rs))]]

-----------------------------------------------------------------------------
(* Dashboard.tsx: getComparisonData *)

\* actual_value of a metric score: null (or undefined), a number or a string
ActualNull == [t |-> "null", n |-> 0, s |-> <<>>]

ActualNumber(n) == [t |-> "number", n |-> n, s |-> <<>>]

ActualString(s) == [t |-> "string", n |-> 0, s |-> s]

\* one entry of result.metric_scores; metric_name '' stands for an absent name
MetricScore(metric_name, actual_value, score) ==
    [metric_name |-> metric_name, actual_value |-> actual_value, score |-> score]

\* String(value) of a value that is not null
StringOf(value) == IF value.t = "number" THEN NumberToString(value.n) ELSE value.s

\* String.prototype.trim
Trim(str) == TrimRight(TrimLeft(str))

\* result.metric_scores when it is an array, [] otherwise
MetricScores(result) ==
    IF Has(result, "metric_scores") THEN result.metric_scores ELSE <<>>

\* the first metric score that has a name, whatever the name
FindMetric_AnyName(metric_scores, k, lowerSelectedCriteria) ==
    IF \E i \in 1..Len(metric_scores) : metric_scores[i].metric_name # <<>>
    THEN CHOOSE i \in 1..Len(metric_scores) :
            /\ metric_scores[i].metric_name # <<>>
            /\ \A j \in 1..(i - 1) : metric_scores[j].metric_name = <<>>
    ELSE 0

\* result.metric_scores.find(ms => ms.metric_name
\*     ? String(ms.metric_name).toLowerCase().trim() === lowerSelectedCriteria : false):
\* its index, 0 when there is none
RECURSIVE FindMetric(_, _, _)
FindMetric(metric_scores, k, lowerSelectedCriteria) ==
    IF k > Len(metric_scores) THEN 0
    ELSE IF /\ metric_scores[k].metric_name # <<>>
            /\ Trim(ToLowerCase(metric_scores[k].metric_name)) = lowerSelectedCriteria
         THEN k
    ELSE FindMetric(metric_scores, k + 1, lowerSelectedCriteria)

\* one element of caseComparisons; every result of the model has a case_id,
\* so caseName is never the fallback `Case ${index + 1}`
CaseComparison(result, selected) ==
    LET metric_scores == MetricScores(result)
        matched == FindMetric(metric_scores, 1, Trim(ToLowerCase(selected)))
        matchedMetric == metric_scores[matched]
    IN [caseName |-> result.case_id,
        actualValue |-> IF matched # 0
                           /\ matchedMetric.actual_value # ActualNull
                           /\ Trim(StringOf(matchedMetric.actual_value)) # <<>>
                        THEN StringOf(matchedMetric.actual_value)
                        ELSE Str_NA,
        score |-> IF matched # 0 THEN OrZero(matchedMetric.score) ELSE 0]

\* Array.prototype.find by a predicate on the key: its index, 0 when there is none
RECURSIVE FindKey(_, _, _)
FindKey(keys, k, key) ==
    IF k > Len(keys) THEN 0
    ELSE IF keys[k] = key THEN k
    ELSE FindKey(keys, k + 1, key)

NoComparisonData == [has |-> FALSE, criterionName |-> <<>>,
                     requiredValueDisplay |-> <<>>, caseComparisons |-> <<>>]

\* getComparisonData, or null
getComparisonData(selected, resultsSource, forComparison, criteriaArray) ==
    IF selected = <<>> \/ Len(resultsSource) = 0 THEN NoComparisonData
    ELSE LET info == FindKey([i \in 1..Len(forComparison) |-> forComparison[i].name], 1, selected)
             idealDisplayValue == IF info # 0 THEN forComparison[info].idealValue ELSE Str_NA
             original == FindKey([i \in 1..Len(criteriaArray) |->
                                     ToLowerCase(criteriaArray[i].parameter)],
                                 1, ToLowerCase(selected))
             minRequiredValue == IF original # 0 THEN criteriaArray[original].min_value
                                 ELSE Undefined
         IN [has |-> TRUE,
             criterionName |-> selected,
             requiredValueDisplay |->
                 IF idealDisplayValue # Str_NA THEN idealDisplayValue
                 ELSE IF minRequiredValue.has THEN NumberToString(minRequiredValue.v)
                 ELSE Str_NA,
             caseComparisons |->
                 [i \in 1..Len(resultsSource) |-> CaseComparison(resultsSource[i], selected)]]

-----------------------------------------------------------------------------
(* Dashboard.tsx: the component *)

\* One run of the function component Dashboard with selectedCriteria = selected,
\* top to bottom: the summary figures, the chart data and the comparison are
\* computed first, the JSX (with the sort of the Top Performing Cases card, which
\* sorts the results array itself, and the Criteria tab) after them.
RenderSelected(selected) ==
    LET sorted == ArraySort(results)
        forComparison == CriteriaForComparison(criteriaData)
    IN /\ criteriaForComparison' = forComparison
       /\ avgScore' = AvgScore(results)
       /\ approvedCount' = CountStatus(results, "Eligible")
       /\ rejectedCount' = CountStatus(results, "Not Eligible")
       /\ reviewCount' = CountStatus(results, "Review Required")
       /\ caseScoresData' = [i \in 1..Len(results) |-> OrZero(results[i].percentage)]
       /\ scoreDistributionData' = getScoreDistributionData(results)
       /\ radarData' = getRadarData(results)
       /\ comparisonData' = getComparisonData(selected, results, forComparison, criteriaData)
       /\ results' = sorted
       /\ topPerformers' = Slice0(sorted, TopCount)
       /\ resultsList' = sorted
       /\ scoreColors' = [i \in 1..Len(sorted) |-> getScoreColor(OrZero(sorted[i].percentage))]
       /\ criteriaTabIdeal' = [i \in 1..Len(criteriaData) |->
                                  CriteriaTabIdealValue(criteriaData[i])]
       /\ mounted' = TRUE
       /\ UNCHANGED <<received, criteriaData>>

\* a render that no change of selectedCriteria caused
Render ==
    /\ RenderSelected(selectedCriterion)
    /\ UNCHANGED selectedCriterion

\* App renders <Dashboard data={analysisData} />: the first render
Mount ==
    /\ ~mounted
    /\ Render
    /\ effectPending' = TRUE
    /\ UNCHANGED <<activeTab, compareVars, scoreVars, uploadVars>>

\* criteria.find(item => item.parameter && (... includes('revenue') || ... includes('sales')
\*     || ... includes('turnover'))): its index, 0 when there is none
RECURSIVE FindRevenueItem(_, _)
FindRevenueItem(names, k) ==
    IF k > Len(names) THEN 0
    ELSE IF \/ Includes(ToLowerCase(names[k]), Str_revenue)
            \/ Includes(ToLowerCase(names[k]), Str_sales)
            \/ Includes(ToLowerCase(names[k]), Str_turnover)
         THEN k
    ELSE FindRevenueItem(names, k + 1)

\* the criterion the effect selects among the names, or the selection it leaves
DefaultCriteria(names) ==
    LET revenueItem == FindRevenueItem(names, 1)
    IN IF revenueItem # 0 THEN names[revenueItem] ELSE names[1]

\* the useEffect "Set default selected criteria to Revenue", which runs after
\* the first render and before any event, and the render its setSelectedCriteria
\* causes when it changes the selection
SelectDefaultCriteria ==
    /\ effectPending
    /\ effectPending' = FALSE
    /\ LET unset == selectedCriterion = <<>> \/ selectedCriterion = Str_Revenue
           target ==
               IF Len(criteriaData) > 0 /\ unset
               THEN DefaultCriteria([i \in 1..Len(criteriaData) |-> criteriaData[i].parameter])
               ELSE IF Len(criteriaForComparison) > 0 /\ unset
               THEN DefaultCriteria([i \in 1..Len(criteriaForComparison) |->
                                        criteriaForComparison[i].name])
               ELSE selectedCriterion
       IN IF target # selectedCriterion
          THEN selectedCriterion' = target /\ RenderSelected(target)
          ELSE UNCHANGED <<results, received, mounted, caseScoresData, scoreDistributionData,
                           topPerformers, resultsList, scoreColors, criteriaData,
                           selectedCriterion, criteriaForComparison, comparisonData,
                           criteriaTabIdeal, avgScore, approvedCount, rejectedCount,
                           reviewCount, radarData>>
    /\ UNCHANGED <<activeTab, compareVars, scoreVars, uploadVars>>

\* onValueChange of a TabsTrigger: setActiveTab(t), and the render it causes
SetActiveTab(t) ==
    /\ mounted
    /\ ~effectPending
    /\ t # activeTab
    /\ activeTab' = t
    /\ Render
    /\ UNCHANGED <<effectPending, compareVars, scoreVars, uploadVars>>

\* the items of the criterion Select: the parameters of the criteria, or the
\* names of criteriaForComparison when there are no criteria
SelectItems ==
    IF Len(criteriaData) > 0
    THEN {criteriaData[i].parameter : i \in 1..Len(criteriaData)}
    ELSE {criteriaForComparison[i].name : i \in 1..Len(criteriaForComparison)}

\* onValueChange of the criterion Select of the first component:
\* setSelectedCriteria(name), and the render it causes
SelectCriteria(name) ==
    /\ mounted
    /\ ~effectPending
    /\ name \in SelectItems
    /\ name # selectedCriterion
    /\ selectedCriterion' = name
    /\ RenderSelected(name)
    /\ UNCHANGED <<activeTab, effectPending, compareVars, scoreVars, uploadVars>>

\* the component before its first render, given an analysis and its criteria
DashInitWith(lists, criteriaArrays) ==
    /\ received \in lists
    /\ results = received
    /\ criteriaData \in criteriaArrays
    /\ mounted = FALSE
    /\ activeTab = "overview"
    /\ selectedCriterion = Str_Revenue
    /\ effectPending = FALSE
    /\ caseScoresData = <<>>
    /\ scoreDistributionData = <<0, 0, 0, 0, 0>>
    /\ topPerformers = <<>>
    /\ resultsList = <<>>
    /\ scoreColors = <<>>
    /\ criteriaForComparison = <<>>
    /\ comparisonData = NoComparisonData
    /\ criteriaTabIdeal = <<>>
    /\ avgScore = Fraction(0, 1)
    /\ approvedCount = 0
    /\ rejectedCount = 0
    /\ reviewCount = 0
    /\ radarData = NoRadarData

\* an analysis that came without criteria
DashInit(lists) == DashInitWith(lists, {<<>>})

DashNext ==
    \/ Mount
    \/ SelectDefaultCriteria
    \/ \E t \in Tabs : SetActiveTab(t)

\* the first component with its criterion Select
ViewNext ==
    \/ DashNext
    \/ \E name \in SelectItems : SelectCriteria(name)

(* The analyses and criteria the views are checked on *)

MaxViewCases == 2

Entry(key, value) == [key |-> key, value |-> value]

\* one result of an analysis, but for its case_id
ViewResult(percentage, eligibility_status, individual_scores, metric_scores) ==
    [percentage |-> percentage, eligibility_status |-> eligibility_status,
     individual_scores |-> individual_scores, metric_scores |-> metric_scores]

ViewResultPool ==
    {ViewResult(Pct(85, 0), "Eligible",
                <<Entry(Str_Revenue, 10), Entry(Str_Debt, 5)>>,
                <<MetricScore(Str_Revenue, ActualNumber(200), Defined(10)),
                  MetricScore(Str_Debt, ActualString(Str_abc), Defined(5))>>),
     ViewResult(Pct(55, 0), "Review Required",
                <<Entry(Str_Revenue, 6)>>,
                <<MetricScore(Str_REVENUE_, ActualNumber(75), Defined(6))>>),
     ViewResult(Pct(20, 5), "Not Eligible",
                <<Entry(Str_Debt, 2)>>,
                <<MetricScore(Str_Debt, ActualNumber(3), Defined(2))>>),
     ViewResult(NoPct, "Not Eligible", <<>>, <<>>),
     ViewResult(Pct(85, 0), "Eligible",
                <<Entry(Str_Debt, 10), Entry(Str_Revenue, 0)>>,
                <<MetricScore(<<>>, ActualNumber(1), Defined(9)),
                  MetricScore(Str_Revenue, ActualNull, Undefined)>>),
     ViewResult(Pct(55, 0), "Review Required",
                <<Entry(Str_Revenue, 7), Entry(Str_Sector, 10)>>,
                <<MetricScore(Str_Revenue, ActualString(Str_Blank), Defined(7))>>)}

\* the analyses of up to n cases; the case_id of a result is its place in the analysis
ViewResultLists(n) ==
    UNION {{[i \in 1..k |-> [case_id |-> i] @@ f[i]] : f \in [1..k -> ViewResultPool]} : k \in 0..n}

\* scoring_intervals as the criteria sheet declares them: under `range`, under
\* `interval`, under both, under `condition`; with one, two or no interval of score 10
ViewIntervalLists ==
    {<<>>,
     <<ScoringInterval(<<>>, Str_Below50, <<>>, 2),
       ScoringInterval(<<>>, Str_50to150, <<>>, 6),
       ScoringInterval(<<>>, Str_Above150, <<>>, 10)>>,
     <<ScoringInterval(Str_Below50, <<>>, <<>>, 2),
       ScoringInterval(Str_50to150, <<>>, <<>>, 6),
       ScoringInterval(Str_Above150, <<>>, <<>>, 10)>>,
     <<ScoringInterval(Str_Below50, Str_Below50, <<>>, 2),
       ScoringInterval(Str_50to150, Str_50to150, <<>>, 10),
       ScoringInterval(Str_Above150, Str_Above150, <<>>, 10)>>,
     <<ScoringInterval(Str_Below50, Str_Below50, <<>>, 8),
       ScoringInterval(Str_50to150, Str_50to150, <<>>, 2),
       ScoringInterval(Str_Above150, Str_Above150, <<>>, 8)>>,
     <<ScoringInterval(<<>>, <<>>, Str_Above150, 10)>>}

\* the criteria arrays: a Revenue criterion and a Debt criterion, in either order
ViewCriteriaArrays ==
    {<<>>}
    \cup {<<CriteriaItem(Str_Revenue, Undefined, intervals),
            CriteriaItem(Str_Debt, Defined(5), <<>>)>> : intervals \in ViewIntervalLists}
    \cup {<<CriteriaItem(Str_Debt, Undefined, <<>>),
            CriteriaItem(Str_Revenue, Defined(100), intervals)>> : intervals \in ViewIntervalLists}

-----------------------------------------------------------------------------
(* Dashboard.tsx (second component): metric matching of getComparisonData *)

\* JSON values of a case metric
JsNull == [t |-> "null", v |-> 0]

JsNumber(n) == [t |-> "number", v |-> n]

\* the string 'N/A' the comparison shows for a value it did not find
NotAvailable == [t |-> "string", v |-> 0]

MaxMetrics == 2

MetricKeys == {Str_Revenue, Str_revenue, Str_REVENUE, Str_AnnualRevenue, Str_rev, Str_Debt}

MetricValues == {JsNull, JsNumber(1), JsNumber(2)}

CriteriaNames == {Str_Revenue, Str_AnnualRevenue, Str_Debt}

\* an object's entries in key order: distinct keys, each with a value
IsCaseData(cd) == \A i, j \in 1..Len(cd) : i # j => cd[i].key # cd[j].key

CaseDatas ==
    UNION {{cd \in [1..k -> [key : MetricKeys, val : MetricValues]] : IsCaseData(cd)}
           : k \in 0..MaxMetrics}

\* the indexes of Object.entries(caseData) that satisfy a test, and the first of them
FirstIndex(S) == CHOOSE i \in S : \A j \in S : i <= j

\* caseData[selectedCriteria] !== undefined
HasOwnKey(cd, name) == \E i \in 1..Len(cd) : cd[i].key = name

GetOwn(cd, name) == cd[CHOOSE i \in 1..Len(cd) : cd[i].key = name].val

\* the for loop "Case-insensitive match": value after the loop, null when nothing matched
CaseInsensitiveLoop(cd, lowerCriteria) ==
    LET hits == {i \in 1..Len(cd) : ToLowerCase(cd[i].key) = lowerCriteria}
    IN IF hits = {} THEN JsNull ELSE cd[FirstIndex(hits)].val

\* the for loop "Fuzzy match": value after the loop, the value before it when nothing matched
FuzzyLoop(cd, lowerCriteria, value) ==
    LET hits == {i \in 1..Len(cd) :
                    LET keyLower == ToLowerCase(cd[i].key)
                    IN Includes(keyLower, lowerCriteria) \/ Includes(lowerCriteria, keyLower)}
    IN IF hits = {} THEN value ELSE cd[FirstIndex(hits)].val

\* the body of resultsSource.map in getComparisonData: the value shown for one case
MatchMetric(cd, selected) ==
    LET value ==
            IF HasOwnKey(cd, selected) THEN GetOwn(cd, selected)
            ELSE LET lowerCriteria == ToLowerCase(selected)
                     afterExact == CaseInsensitiveLoop(cd, lowerCriteria)
                 IN IF afterExact = JsNull
                    THEN FuzzyLoop(cd, lowerCriteria, afterExact)
                    ELSE afterExact
    IN IF value # JsNull THEN value ELSE NotAvailable

NotComputed == [t |-> "none", v |-> 0]

\* a render of the Dashboard with the criterion selected: getComparisonData runs
CompareRender ==
    /\ caseValue = NotComputed
    /\ caseValue' = MatchMetric(caseData, selectedCriteria)
    /\ UNCHANGED <<caseData, selectedCriteria, dashVars, scoreVars, uploadVars>>

\* onValueChange of the criterion Select: setSelectedCriteria(name), and the render it causes
SetSelectedCriteria(name) ==
    /\ caseValue # NotComputed
    /\ name # selectedCriteria
    /\ selectedCriteria' = name
    /\ caseValue' = MatchMetric(caseData, name)
    /\ UNCHANGED <<caseData, dashVars, scoreVars, uploadVars>>

CompareInit ==
    /\ caseData \in CaseDatas
    /\ selectedCriteria = Str_Revenue
    /\ caseValue = NotComputed

CompareIdle ==
    /\ caseData = <<>>
    /\ selectedCriteria = Str_Revenue
    /\ caseValue = NotComputed

CompareNext ==
    \/ CompareRender
    \/ \E name \in CriteriaNames : SetSelectedCriteria(name)

-----------------------------------------------------------------------------
(* The scoring engine behind POST /analyze (CriteriaCatalog, MetricResolver, *)
(* ScoreCalculator, CaseScorer).  Scores and weights are whole numbers;      *)
(* weighted contributions and total_score are kept in tenths (score x weight *)
(* is ten times score/10 x weight), percentages in tenths of a percent.      *)

MaxCriteria == 2

\* n units, in tenths
Tenths(n) == 10 * n

\* raw metric values and the not-found marker
Number(n) == [t |-> "number", n |-> n, s |-> <<>>]

String(str) == [t |-> "string", n |-> 0, s |-> str]

NotFound == [t |-> "notfound", n |-> 0, s |-> <<>>]

\* optional fields of a criterion
Absent == [has |-> FALSE, v |-> 0]

Given(n) == [has |-> TRUE, v |-> n]

NoPreferred == [has |-> FALSE, s |-> <<>>]

Preferred(str) == [has |-> TRUE, s |-> str]

\* an interval's range: "<lo", ">lo" or "lo-hi"
Below(n) == [op |-> "<", lo |-> n, hi |-> n]

Above(n) == [op |-> ">", lo |-> n, hi |-> n]

Between(a, b) == [op |-> "-", lo |-> a, hi |-> b]

Criterion(parameter, weight, intervals, min, max, preferred) ==
    [parameter |-> parameter, weight |-> weight, scoring_intervals |-> intervals,
     min_value |-> min, max_value |-> max, preferred_value |-> preferred]

\* the interval table of a revenue criterion, and one whose ranges overlap
RevenueIntervals ==
    <<[range |-> Below(50000), score |-> 2],
      [range |-> Between(50000, 150000), score |-> 6],
      [range |-> Above(150000), score |-> 10]>>

OverlappingIntervals ==
    <<[range |-> Above(100000), score |-> 6],
      [range |-> Above(150000), score |-> 10],
      [range |-> Below(100000), score |-> 3]>>

OutOfRangeIntervals == <<[range |-> Above(100000), score |-> 11]>>

CriteriaPool ==
    {Criterion(Str_Revenue, Given(30), <<>>, Given(100000), Absent, NoPreferred),
     Criterion(Str_Debt, Given(30), <<>>, Given(100000), Absent, NoPreferred),
     Criterion(Str_Debt, Absent, <<>>, Absent, Given(100000), NoPreferred),
     Criterion(Str_Revenue, Given(20), RevenueIntervals, Absent, Absent, NoPreferred),
     Criterion(Str_Revenue, Given(5), OverlappingIntervals, Given(100000), Absent, NoPreferred),
     Criterion(Str_Sector, Given(10), <<>>, Absent, Absent, Preferred(Str_Tech)),
     Criterion(Str_Blank, Given(10), <<>>, Given(100000), Absent, NoPreferred),
     Criterion(Str_Revenue, Given(10), OutOfRangeIntervals, Absent, Absent, NoPreferred)}

CriteriaSets == UNION {[1..k -> CriteriaPool] : k \in 0..MaxCriteria}

\* a case: an optional revenue metric under one of three spellings, an optional
\* debt metric, an optional sector metric, in this key order
RevenueEntries ==
    {<<>>} \cup {<<[key |-> k, val |-> v]>> :
                    k \in {Str_Revenue, Str_revenue, Str_AnnualRevenue},
                    v \in {Number(50000), Number(150000), Number(200000), String(Str_abc)}}

DebtEntries ==
    {<<>>} \cup {<<[key |-> Str_Debt, val |-> v]>> : v \in {Number(50000), Number(150000)}}

SectorEntries == {<<>>, <<[key |-> Str_Sector, val |-> String(Str_tech)]>>}

CaseRecords == {r \o d \o c : r \in RevenueEntries, d \in DebtEntries, c \in SectorEntries}

(* CriteriaCatalog *)

\* the case-folded, trimmed parameter of the normalized-name index
Normalized(str) == ToLowerCase(TrimRight(TrimLeft(str)))

\* weight, 1 when absent
EffectiveWeight(c) == IF c.weight.has THEN c.weight.v ELSE 1

\* build fails with ValidationError on a blank parameter or an interval score outside [0,10]
WellFormed(cs) ==
    \A i \in 1..Len(cs) :
        /\ Normalized(cs[i].parameter) # <<>>
        /\ \A k \in 1..Len(cs[i].scoring_intervals) :
               cs[i].scoring_intervals[k].score \in 0..10

\* the policy of a criterion: intervals first, then min/max, then preferred value
PolicyOf(c) ==
    IF c.scoring_intervals # <<>> THEN "interval"
    ELSE IF c.min_value.has \/ c.max_value.has THEN "threshold"
    ELSE IF c.preferred_value.has THEN "preferred"
    ELSE "none"

(* MetricResolver *)

\* resolve: exact key, else case-insensitive key, else containment in either
\* direction, each scanning the metrics in insertion order
Resolve(metrics, parameter) ==
    LET norm == Normalized(parameter)
        exact == {i \in 1..Len(metrics) : metrics[i].key = parameter}
        folded == {i \in 1..Len(metrics) : Normalized(metrics[i].key) = norm}
        within == {i \in 1..Len(metrics) :
                      \/ Includes(norm, Normalized(metrics[i].key))
                      \/ Includes(Normalized(metrics[i].key), norm)}
    IN IF exact # {} THEN metrics[FirstIndex(exact)].val
       ELSE IF folded # {} THEN metrics[FirstIndex(folded)].val
       ELSE IF within # {} THEN metrics[FirstIndex(within)].val
       ELSE NotFound

(* ScoreCalculator *)

\* the predicate parsed from an interval's range
RangeMatches(range, value) ==
    /\ value.t = "number"
    /\ CASE range.op = "<" -> value.n < range.lo
         [] range.op = ">" -> value.n > range.lo
         [] range.op = "-" -> range.lo <= value.n /\ value.n <= range.hi

RECURSIVE IntervalScore_LastMatch(_, _, _)
\* IntervalScore that keeps scanning after a match: the last matching interval wins
IntervalScore_LastMatch(intervals, k, value) ==
    IF k > Len(intervals) THEN 0
    ELSE LET rest == IntervalScore_LastMatch(intervals, k + 1, value)
         IN IF RangeMatches(intervals[k].range, value)
               /\ \A j \in (k + 1)..Len(intervals) : ~RangeMatches(intervals[j].range, value)
            THEN intervals[k].score
            ELSE rest

RECURSIVE IntervalScore(_, _, _)
\* the intervals from the k-th on, in declared order: the first match's score, 0 without a match
IntervalScore(intervals, k, value) ==
    IF k > Len(intervals) THEN 0
    ELSE IF RangeMatches(intervals[k].range, value) THEN intervals[k].score
    ELSE IntervalScore(intervals, k + 1, value)

\* ThresholdScore that ignores min_value
ThresholdScore_NoMin(c, value) ==
    IF /\ value.t = "number"
       /\ (c.max_value.has => value.n <= c.max_value.v)
    THEN 10 ELSE 0

\* min/max policy: 10 for a number within the bounds that are given, else 0
ThresholdScore(c, value) ==
    IF /\ value.t = "number"
       /\ (c.min_value.has => value.n >= c.min_value.v)
       /\ (c.max_value.has => value.n <= c.max_value.v)
    THEN 10 ELSE 0

\* preferred-value policy: 10 for a case-insensitive exact match, else 0
PreferredScore(c, value) ==
    IF value.t = "string" /\ ToLowerCase(value.s) = ToLowerCase(c.preferred_value.s)
    THEN 10 ELSE 0

\* score(criterion, resolvedValue): NotFound scores 0 under every policy
Score(c, value) ==
    IF value = NotFound THEN 0
    ELSE CASE PolicyOf(c) = "interval" -> IntervalScore(c.scoring_intervals, 1, value)
           [] PolicyOf(c) = "threshold" -> ThresholdScore(c, value)
           [] PolicyOf(c) = "preferred" -> PreferredScore(c, value)
           [] OTHER -> 0

(* CaseScorer *)

\* the MetricScore of one criterion for one case
MetricScoreOf(c, metrics) ==
    LET value == Resolve(metrics, c.parameter)
        sc == Score(c, value)
    IN [metric_name |-> c.parameter, actual_value |-> value, score |-> sc,
        weight |-> EffectiveWeight(c), weighted_contribution |-> sc * EffectiveWeight(c)]

\* MaxPossibleScore that counts only the criteria whose metric was found
MaxPossibleScore_FoundOnly(cs, metric_scores) ==
    SumFrom([i \in 1..Len(metric_scores) |->
                IF metric_scores[i].actual_value = NotFound THEN 0
                ELSE metric_scores[i].weight], 1)

\* the catalog's max_possible_score: the sum of the weights of all criteria
MaxPossibleScore(cs, metric_scores) ==
    SumFrom([i \in 1..Len(cs) |-> EffectiveWeight(cs[i])], 1)

Clamp(x, lo, hi) == IF x < lo THEN lo ELSE IF x > hi THEN hi ELSE x

\* TotalScore that adds score x weight without the division of the score by 10
TotalScore_Unscaled(metric_scores) ==
    SumFrom([i \in 1..Len(metric_scores) |-> 10 * metric_scores[i].weighted_contribution], 1)

\* total_score, in tenths
TotalScore(metric_scores) ==
    SumFrom([i \in 1..Len(metric_scores) |-> metric_scores[i].weighted_contribution], 1)

\* scoreCase(catalog, caseRecord): every criterion of the catalog is resolved and scored
ScoreCase(cs, metrics) ==
    LET metric_scores == [i \in 1..Len(cs) |-> MetricScoreOf(cs[i], metrics)]
        total == TotalScore(metric_scores)
        max == MaxPossibleScore(cs, metric_scores)
    IN [metric_scores |-> metric_scores,
        total_score |-> total,
        max_possible_score |-> max,
        percentage |-> IF max = 0 THEN 0 ELSE Clamp((total * 100) \div max, 0, P(100, 0))]

\* POST /analyze: the catalog is built (or refused), then the case is scored
Analyze ==
    /\ analysis.state = "none"
    /\ analysis' = IF WellFormed(criteria)
                   THEN [state |-> "scored", result |-> ScoreCase(criteria, caseRecord)]
                   ELSE [state |-> "ValidationError"]
    /\ UNCHANGED <<criteria, caseRecord, dashVars, compareVars, uploadVars>>

ScoreInit ==
    /\ criteria \in CriteriaSets
    /\ caseRecord \in CaseRecords
    /\ analysis = [state |-> "none"]

ScoreNext == Analyze

-----------------------------------------------------------------------------
(* FileUpload.tsx and App.tsx: the upload workflow.  Every dropped file has  *)
(* its own run of onDrop and processExcelFile (a flow); the runs of several  *)
(* files interleave at their awaits.  A step of a flow is the code between   *)
(* two awaits of a request: the response arrives, the code runs up to the    *)
(* next request.                                                             *)

MaxFiles == 1

MaxSheets == 3

Str_xlsx == <<".", "x", "l", "s", "x">>

Str_xls == <<".", "x", "l", "s">>

\* the names of the files the user drops
FileNames ==
    {<<"a">> \o Str_xlsx, <<"a">> \o Str_xls,
     <<"a", ".", "c", "s", "v">>, <<"a", ".", "X", "L", "S", "X">>, <<"a", "x", "l", "s">>}

\* an endsWith that does not look at the first character of the suffix
EndsWith_NoDot(str, suffix) ==
    /\ Len(str) >= Len(suffix) - 1
    /\ SubSeq(str, Len(str) - Len(suffix) + 2, Len(str)) = Tail(suffix)

\* String.prototype.endsWith
EndsWith(str, suffix) ==
    /\ Len(str) >= Len(suffix)
    /\ SubSeq(str, Len(str) - Len(suffix) + 1, Len(str)) = suffix

\* the i-th sheet of a workbook: 'Criteria', 'Case 1', 'Case 2', ...
SheetName(i) ==
    IF i = 1 THEN <<"C", "r", "i", "t", "e", "r", "i", "a">>
    ELSE <<"C", "a", "s", "e", " ">> \o NumberToString(i - 1)

\* uploadResult.sheets: the sheets of the workbook, in workbook order
Workbooks == {[i \in 1..n |-> SheetName(i)] : n \in 0..MaxSheets}

\* how a fetch ends: a response with ok, a response without ok, or a rejection
\* (the request did not complete)
Outcomes == {"ok", "notOk", "rejected"}

\* error === null
NoError == "null"

\* analysisData === null
NoData ==
    [has |-> FALSE, file |-> 0, uploadResult |-> <<>>, criteriaData |-> "undefined",
     cases |-> <<>>, analysisResult |-> "undefined", dashboardData |-> "undefined"]

\* the flow as a response finds it: the request it awaited and how that ended
Answered(flow, outcome) == [flow EXCEPT !.last = <<flow.pc, outcome>>]

\* a request a flow has sent
Request(kind, sheet, cases_sheets) == [kind |-> kind, sheet |-> sheet, cases_sheets |-> cases_sheets]

\* a file not dropped yet
NoFlow ==
    [name |-> <<>>, pc |-> "none", outcome |-> "none", mount |-> 0, timer |-> FALSE,
     sheets |-> <<>>, criteriaData |-> "undefined", sheet |-> 0, allCases |-> <<>>,
     skipped |-> <<>>, analysisResult |-> "undefined", requests |-> <<>>,
     last |-> <<"none", "none">>, calls |-> 0]

\* a slice that keeps the first element
Slice1_All(sheets) == sheets

\* Array.prototype.slice(1)
Slice1(sheets) == IF sheets = <<>> THEN <<>> ELSE Tail(sheets)

\* the FileUpload that ran onDrop for the flow is still the one on the page:
\* its setState calls take effect
Mounted(w) == analysisData = NoData /\ flows[w].mount = instance

\* the flow goes on as `flow`; its setUploadProgress and setError calls, if any,
\* leave the state at progress and err
Continue(w, flow, progress, err) ==
    /\ flows' = [flows EXCEPT ![w] = flow]
    /\ IF Mounted(w)
       THEN uploadProgress' = progress /\ error' = err
       ELSE UNCHANGED <<uploadProgress, error>>
    /\ UNCHANGED <<uploadedFile, analysisData, isLoading, instance, drops,
                   dashVars, compareVars, scoreVars>>

\* the flow has returned: its locals are gone; its progressInterval, if it was
\* not cleared, goes on
Finished(flow, outcome) ==
    [NoFlow EXCEPT !.name = flow.name, !.pc = "done", !.outcome = outcome,
                   !.mount = flow.mount, !.timer = flow.timer, !.last = flow.last,
                   !.calls = flow.calls]

\* a catch block that leaves the progress where it is
Catch_KeepProgress(w, flow, message) ==
    Continue(w, Finished(flow, "failed"), uploadProgress, message)

\* the catch blocks: setError(err.message); setUploadProgress(0)
Catch(w, flow, message) == Continue(w, Finished(flow, "failed"), 0, message)

\* onDrop(acceptedFiles) with acceptedFiles[0] a file of that name, up to the
\* await of the upload request (with no file in acceptedFiles onDrop returns at
\* once and nothing changes).  The dropzone is on the page only while no file
\* is shown (!uploadedFile) and the upload view is, and it is disabled while
\* isLoading.
Drop(name) ==
    /\ analysisData = NoData
    /\ uploadedFile = 0
    /\ ~isLoading
    /\ drops < Len(flows)
    /\ drops' = drops + 1
    /\ IF ~EndsWith(name, Str_xlsx) /\ ~EndsWith(name, Str_xls)
       THEN /\ error' = "Please upload an Excel file (.xlsx or .xls)"
            /\ flows' = [flows EXCEPT ![drops + 1] =
                            Finished([NoFlow EXCEPT !.name = name, !.mount = instance],
                                     "rejected")]
            /\ UNCHANGED <<uploadedFile, uploadProgress>>
       ELSE /\ error' = NoError
            /\ uploadedFile' = drops + 1
            /\ uploadProgress' = 0
            /\ flows' = [flows EXCEPT ![drops + 1] =
                            [NoFlow EXCEPT !.name = name, !.pc = "upload", !.mount = instance,
                                           !.timer = TRUE,
                                           !.requests = <<Request("upload", <<>>, <<>>)>>]]
    /\ UNCHANGED <<analysisData, isLoading, instance, dashVars, compareVars, scoreVars>>

\* a tick of the flow's progressInterval:
\* setUploadProgress(prev => prev >= 90 ? (clearInterval(progressInterval), 90) : prev + 10)
Tick(w) ==
    /\ w \in DOMAIN flows
    /\ flows[w].timer
    /\ Mounted(w)
    /\ IF uploadProgress >= 90
       THEN /\ uploadProgress' = 90
            /\ flows' = [flows EXCEPT ![w].timer = FALSE]
       ELSE /\ uploadProgress' = uploadProgress + 10
            /\ UNCHANGED flows
    /\ UNCHANGED <<uploadedFile, error, analysisData, isLoading, instance, drops,
                   dashVars, compareVars, scoreVars>>

\* the upload request ends; on success clearInterval, setUploadProgress(100) and
\* processExcelFile up to its criteria request
UploadResponds(w, outcome, sheets) ==
    /\ w \in DOMAIN flows
    /\ flows[w].pc = "upload"
    /\ IF outcome = "ok"
       THEN LET flow == [Answered(flows[w], outcome) EXCEPT !.timer = FALSE, !.sheets = sheets]
            IN IF sheets = <<>>
               THEN Catch(w, flow, "No sheets found in the Excel file")
               ELSE Continue(w, [flow EXCEPT !.pc = "criteria",
                                             !.requests = Append(@, Request("criteria", sheets[1], <<>>))],
                             100, error)
       ELSE Catch(w, Answered(flows[w], outcome),
                  IF outcome = "notOk" THEN "Upload failed" ELSE "Failed to fetch")

\* a criteria step that goes on to the analyze request without reading a case sheet
CriteriaResponds_SkipCases(w, outcome) ==
    /\ w \in DOMAIN flows
    /\ flows[w].pc = "criteria"
    /\ IF outcome = "ok"
       THEN Continue(w, [Answered(flows[w], outcome) EXCEPT
                            !.criteriaData = "criteria", !.pc = "analyze",
                            !.requests = Append(@, Request("analyze", flows[w].sheets[1],
                                                           Slice1(flows[w].sheets)))],
                     uploadProgress, error)
       ELSE Catch(w, Answered(flows[w], outcome), "Failed to fetch")

\* the criteria request ends; on success processExcelFile goes on to the first case sheet
CriteriaResponds(w, outcome) ==
    /\ w \in DOMAIN flows
    /\ flows[w].pc = "criteria"
    /\ IF outcome = "ok"
       THEN LET flow == [Answered(flows[w], outcome) EXCEPT !.criteriaData = "criteria"]
                casesSheets == Slice1(flow.sheets)
            IN IF casesSheets = <<>>
               THEN Catch(w, flow, "No case data found in the Excel file")
               ELSE Continue(w, [flow EXCEPT !.pc = "cases", !.sheet = 1,
                                             !.requests = Append(@, Request("cases", casesSheets[1], <<>>))],
                             uploadProgress, error)
       ELSE Catch(w, Answered(flows[w], outcome),
                  IF outcome = "notOk" THEN "Failed to read criteria from Excel file"
                  ELSE "Failed to fetch")

\* the request of a case sheet ends, with that many cases in the sheet when it is
\* read; the loop goes on to the next sheet, or past the loop to the analyze request
CasesResponds(w, outcome, cases) ==
    /\ w \in DOMAIN flows
    /\ flows[w].pc = "cases"
    /\ LET casesSheets == Slice1(flows[w].sheets)
           sheet == casesSheets[flows[w].sheet]
           flow == IF outcome = "ok"
                   THEN [Answered(flows[w], outcome) EXCEPT
                            !.allCases = @ \o [i \in 1..cases |-> sheet]]
                   ELSE [Answered(flows[w], outcome) EXCEPT !.skipped = Append(@, sheet)]
       IN IF outcome = "rejected"
          THEN Catch(w, Answered(flows[w], outcome), "Failed to fetch")
          ELSE IF flows[w].sheet < Len(casesSheets)
          THEN Continue(w, [flow EXCEPT !.sheet = @ + 1,
                                        !.requests = Append(@, Request("cases", casesSheets[flows[w].sheet + 1], <<>>))],
                        uploadProgress, error)
          ELSE IF flow.allCases = <<>>
          THEN Catch(w, flow, "No case data found in the Excel file")
          ELSE Continue(w, [flow EXCEPT !.pc = "analyze",
                                        !.requests = Append(@, Request("analyze", flow.sheets[1], casesSheets))],
                        uploadProgress, error)

\* an analyze step that hands the analysis over before its dashboard data are there
AnalyzeResponds_Publish(w, outcome) ==
    /\ w \in DOMAIN flows
    /\ flows[w].pc = "analyze"
    /\ outcome = "ok"
    /\ flows' = [flows EXCEPT ![w] =
                    [Answered(@, outcome) EXCEPT
                        !.analysisResult = "analysis", !.pc = "dashboard", !.calls = @ + 1,
                        !.requests = Append(@, Request("dashboard", <<>>, <<>>))]]
    /\ analysisData' = [has |-> TRUE, file |-> w,
                        uploadResult |-> flows[w].sheets,
                        criteriaData |-> flows[w].criteriaData,
                        cases |-> flows[w].allCases,
                        analysisResult |-> "analysis",
                        dashboardData |-> "undefined"]
    /\ UNCHANGED <<uploadProgress, uploadedFile, error, isLoading, instance, drops,
                   dashVars, compareVars, scoreVars>>

\* the analyze request ends; on success the dashboard data are requested
AnalyzeResponds(w, outcome) ==
    /\ w \in DOMAIN flows
    /\ flows[w].pc = "analyze"
    /\ IF outcome = "ok"
       THEN Continue(w, [Answered(flows[w], outcome) EXCEPT
                            !.analysisResult = "analysis", !.pc = "dashboard",
                            !.requests = Append(@, Request("dashboard", <<>>, <<>>))],
                     uploadProgress, error)
       ELSE Catch(w, Answered(flows[w], outcome),
                  IF outcome = "notOk" THEN "Failed to analyze the data" ELSE "Failed to fetch")

\* the dashboard request ends; on success onUpload(...), which is App's
\* handleFileUpload: setAnalysisData(data) (Home's handleFileUpload sets
\* isLoading around it, setIsLoading(true) ... setIsLoading(false), and leaves
\* it false; App never sets it)
DashboardResponds(w, outcome) ==
    /\ w \in DOMAIN flows
    /\ flows[w].pc = "dashboard"
    /\ IF outcome = "ok"
       THEN /\ flows' = [flows EXCEPT ![w] =
                            Finished([Answered(@, outcome) EXCEPT !.calls = @ + 1], "delivered")]
            /\ analysisData' = [has |-> TRUE, file |-> w,
                                uploadResult |-> flows[w].sheets,
                                criteriaData |-> flows[w].criteriaData,
                                cases |-> flows[w].allCases,
                                analysisResult |-> flows[w].analysisResult,
                                dashboardData |-> "dashboard"]
            /\ isLoading' = FALSE
            /\ UNCHANGED <<uploadProgress, uploadedFile, error, instance, drops,
                           dashVars, compareVars, scoreVars>>
       ELSE Catch(w, Answered(flows[w], outcome),
                  IF outcome = "notOk" THEN "Failed to generate dashboard data"
                  ELSE "Failed to fetch")

\* removeFile: the X button of the file card, there while !isLoading
RemoveFile ==
    /\ analysisData = NoData
    /\ uploadedFile # 0
    /\ ~isLoading
    /\ uploadedFile' = 0
    /\ uploadProgress' = 0
    /\ error' = NoError
    /\ UNCHANGED <<analysisData, isLoading, instance, drops, flows,
                   dashVars, compareVars, scoreVars>>

\* what App renders: {!analysisData ? <FileUpload/> : <Dashboard data={analysisData}/>}
View == IF analysisData = NoData THEN "upload" ELSE "dashboard"

\* an 'Upload New File' that shows a new FileUpload and keeps the analysis data
handleReset_KeepData ==
    /\ analysisData # NoData
    /\ instance' = instance + 1
    /\ uploadProgress' = 0
    /\ uploadedFile' = 0
    /\ error' = NoError
    /\ UNCHANGED <<analysisData, isLoading, drops, flows, dashVars, compareVars, scoreVars>>

\* handleReset: 'Upload New File'; App shows a new FileUpload (Home's
\* handleReset also calls setIsLoading(false))
handleReset ==
    /\ analysisData # NoData
    /\ analysisData' = NoData
    /\ isLoading' = FALSE
    /\ instance' = instance + 1
    /\ uploadProgress' = 0
    /\ uploadedFile' = 0
    /\ error' = NoError
    /\ UNCHANGED <<drops, flows, dashVars, compareVars, scoreVars>>

\* the upload view before any drop; n files will be dropped
UploadInitOf(n) ==
    /\ uploadProgress = 0
    /\ uploadedFile = 0
    /\ error = NoError
    /\ analysisData = NoData
    /\ isLoading = FALSE
    /\ instance = 1
    /\ drops = 0
    /\ flows = [w \in 1..n |-> NoFlow]

\* the steps of the upload view, the uploaded files holding one of the workbooks
UploadNextOn(files, names, workbooks) ==
    \/ \E name \in names : Drop(name)
    \/ \E w \in files :
          \/ Tick(w)
          \/ \E outcome \in Outcomes, sheets \in workbooks :
                 (outcome = "ok" \/ sheets = <<>>) /\ UploadResponds(w, outcome, sheets)
          \/ \E outcome \in Outcomes : CriteriaResponds(w, outcome)
          \/ \E outcome \in Outcomes, cases \in 0..1 :
                 (outcome = "ok" \/ cases = 0) /\ CasesResponds(w, outcome, cases)
          \/ \E outcome \in Outcomes : AnalyzeResponds(w, outcome)
          \/ \E outcome \in Outcomes : DashboardResponds(w, outcome)
    \/ RemoveFile
    \/ handleReset

UploadNext == UploadNextOn(1..MaxFiles, FileNames, Workbooks)

\* the files of a user who drops a file, removes it and drops another
MaxRaceFiles == 2

\* their workbooks: without sheets, or 'Criteria' and 'Case 1'
RaceWorkbooks == {<<>>, <<SheetName(1), SheetName(2)>>}

\* their names
RaceNames == {<<"a">> \o Str_xlsx, <<"a", ".", "c", "s", "v">>}

RaceNext == UploadNextOn(1..MaxRaceFiles, RaceNames, RaceWorkbooks)

-----------------------------------------------------------------------------
(* Specifications *)

ScoreIdle ==
    /\ criteria = <<>>
    /\ caseRecord = <<>>
    /\ analysis = [state |-> "none"]

DashIdle == DashInit({<<>>})

UploadIdle == UploadInitOf(0)

vars == <<dashVars, compareVars, scoreVars, uploadVars>>

\* the Dashboard rendering an analysis of up to MaxCases results
Init == DashInit(ResultLists(RankPcts, MaxCases)) /\ CompareIdle /\ ScoreIdle /\ UploadIdle

Next == DashNext

Spec == Init /\ [][Next]_vars

\* the Dashboard rendering an analysis of up to MaxBinCases results around the cut points
InitBins == DashInit(ResultLists(BinPcts, MaxBinCases)) /\ CompareIdle /\ ScoreIdle /\ UploadIdle

SpecBins == InitBins /\ [][Next]_vars

\* the Dashboard rendering an analysis of up to MaxViewCases results with its criteria
InitViews == DashInitWith(ViewResultLists(MaxViewCases), ViewCriteriaArrays)
             /\ CompareIdle /\ ScoreIdle /\ UploadIdle

SpecViews == InitViews /\ [][ViewNext]_vars

\* the upload view: up to MaxFiles files dropped, of workbooks of up to MaxSheets sheets
InitUpload == DashIdle /\ CompareIdle /\ ScoreIdle /\ UploadInitOf(MaxFiles)

SpecUpload == InitUpload /\ [][UploadNext]_vars

\* the upload view with up to MaxRaceFiles files dropped one after the other,
\* the workflows of the earlier ones still going on
InitRace == DashIdle /\ CompareIdle /\ ScoreIdle /\ UploadInitOf(MaxRaceFiles)

SpecRace == InitRace /\ [][RaceNext]_vars

\* the comparison view matching one case's metrics against the selected criterion
InitCompare == DashIdle /\ CompareInit /\ ScoreIdle /\ UploadIdle

SpecCompare == InitCompare /\ [][CompareNext]_vars

\* one /analyze run of the scoring engine on a criteria set and a case
InitScore == DashIdle /\ CompareIdle /\ ScoreInit /\ UploadIdle

SpecScore == InitScore /\ [][ScoreNext]_vars

-----------------------------------------------------------------------------
(* Properties of the score distribution (SpecBins) *)

SumSeq5(d) == d[1] + d[2] + d[3] + d[4] + d[5]

\* the bins as the design states them: [0,20], (20,40], (40,60], (60,80], (80,100]
InBin(p, b) ==
    CASE b = 1 -> p <= P(20, 0)
      [] b = 2 -> P(20, 0) < p /\ p <= P(40, 0)
      [] b = 3 -> P(40, 0) < p /\ p <= P(60, 0)
      [] b = 4 -> P(60, 0) < p /\ p <= P(80, 0)
      [] b = 5 -> p > P(80, 0)

CasesInBin(rs, b) == {i \in 1..Len(rs) : InBin(OrZero(rs[i].percentage), b)}

\* C1: the five bin counts of the score distribution sum to the number of
\* results (total_cases), a missing percentage counting as 0.
C1_BinsSumToTotalCases ==
    mounted => SumSeq5(scoreDistributionData) = Len(results)

\* C1 witness: a rendered distribution of three results, one of them without a percentage
C1_Witness ==
    /\ mounted
    /\ Len(received) = 3
    /\ \E i \in 1..3 : ~received[i].percentage.has
    /\ SumSeq5(scoreDistributionData) = 3

\* C2: bin b counts exactly the results whose percentage lies in the b-th of
\* the intervals [0,20], (20,40], (40,60], (60,80], (80,100]; a cut point
\* itself belongs to the lower bin.
C2_FixedBins ==
    mounted => \A b \in 1..5 :
        scoreDistributionData[b] = Cardinality(CasesInBin(received, b))

\* C2 witness: percentages 85, 55 and the cut point 20 were binned 81-100, 41-60 and 0-20
C2_Witness ==
    /\ mounted
    /\ Len(received) = 3
    /\ {received[i].percentage : i \in 1..3} = {Pct(85, 0), Pct(55, 0), Pct(20, 0)}
    /\ scoreDistributionData = <<1, 0, 1, 0, 1>>

-----------------------------------------------------------------------------
(* Properties of the ranking and of the snapshot (Spec) *)

CaseIds(rs) == {rs[i].case_id : i \in 1..Len(rs)}

\* C3: the Top Performing Cases list has min(5, total_cases) rows, all of them
\* results of the analysis, none with a lower percentage than an unlisted
\* result, in descending order of percentage, ties in case-input order.
C3_TopPerformers ==
    mounted =>
        /\ Len(topPerformers) = Min(5, Len(received))
        /\ \A i \in 1..Len(topPerformers) :
               /\ topPerformers[i].case_id \in 1..Len(received)
               /\ topPerformers[i] = received[topPerformers[i].case_id]
        /\ \A i \in 1..Len(topPerformers) : \A k \in 1..Len(received) :
               k \notin CaseIds(topPerformers)
                   => OrZero(topPerformers[i].percentage) >= OrZero(received[k].percentage)
        /\ \A i, j \in 1..Len(topPerformers) :
               i < j =>
                   /\ OrZero(topPerformers[i].percentage) >= OrZero(topPerformers[j].percentage)
                   /\ topPerformers[i].case_id # topPerformers[j].case_id
                   /\ OrZero(topPerformers[i].percentage) = OrZero(topPerformers[j].percentage)
                          => topPerformers[i].case_id < topPerformers[j].case_id

\* C3 witness: six results with percentages -, 55, 55, 85, -, 85 in case order
\* are listed as cases 4, 6, 2, 3, 1 (case 5 is cut), also when the list is
\* rendered again after a tab switch
C3_Witness ==
    /\ mounted
    /\ activeTab # "overview"
    /\ [i \in 1..Len(received) |-> received[i].percentage]
           = <<NoPct, Pct(55, 0), Pct(55, 0), Pct(85, 0), NoPct, Pct(85, 0)>>
    /\ [i \in 1..Len(topPerformers) |-> topPerformers[i].case_id] = <<4, 6, 2, 3, 1>>

\* C4: the results array of the analysis keeps the elements and the case-input
\* order it was received with, so the Case Scores chart and the Detailed
\* Results list show the percentages in case-input order after any renders.
C4_ResultsKeepCaseOrder ==
    /\ results = received
    /\ mounted =>
           /\ resultsList = received
           /\ caseScoresData = [i \in 1..Len(received) |-> OrZero(received[i].percentage)]

-----------------------------------------------------------------------------
(* Properties of the score bands (SpecBins) *)

\* the tier a colour class stands for: 3 the best
TierRank(color) ==
    CASE color = "text-green-600" -> 3
      [] color = "text-yellow-600" -> 2
      [] color = "text-red-600" -> 1

-----------------------------------------------------------------------------
(* Properties of the metric matching (SpecCompare) *)

\* the entry the stated precedence selects (0: none): an exact key match, else
\* the first case-insensitive match, else the first key that contains the
\* criterion name or is contained in it
PrecedenceChoice(cd, name) ==
    LET lower == ToLowerCase(name)
        exact == {i \in 1..Len(cd) : cd[i].key = name}
        folded == {i \in 1..Len(cd) : ToLowerCase(cd[i].key) = lower}
        within == {i \in 1..Len(cd) :
                      \/ Includes(ToLowerCase(cd[i].key), lower)
                      \/ Includes(lower, ToLowerCase(cd[i].key))}
    IN IF exact # {} THEN FirstIndex(exact)
       ELSE IF folded # {} THEN FirstIndex(folded)
       ELSE IF within # {} THEN FirstIndex(within)
       ELSE 0

\* C8: the value shown for a case is the value of the metric selected by the
\* precedence exact match, case-insensitive match, substring containment in
\* either direction (first hit in key order); a later rule is used only when
\* every earlier rule matched no key.
C8_FirstRuleWins ==
    caseValue # NotComputed =>
        LET k == PrecedenceChoice(caseData, selectedCriteria)
        IN caseValue = IF k = 0 \/ caseData[k].val = JsNull THEN NotAvailable
                       ELSE caseData[k].val

\* the criterion 'Annual Revenue' against the single metric key 'revenue' shows that metric's value
C8_ScenarioD ==
    (/\ caseValue # NotComputed
     /\ selectedCriteria = Str_AnnualRevenue
     /\ Len(caseData) = 1
     /\ caseData[1].key = Str_revenue
     /\ caseData[1].val # JsNull)
        => caseValue = caseData[1].val

\* the precedence holds whenever no metric of the case is null
C8_HoldsWithoutNull ==
    (\A i \in 1..Len(caseData) : caseData[i].val # JsNull) => C8_FirstRuleWins

-----------------------------------------------------------------------------
(* Properties of the scoring engine (SpecScore) *)

ScenarioA(parameter) == Criterion(parameter, Given(30), <<>>, Given(100000), Absent, NoPreferred)

ScenarioB == Criterion(Str_Revenue, Given(20), RevenueIntervals, Absent, Absent, NoPreferred)

\* C6: for every scored case 0 <= total_score <= max_possible_score and the
\* percentage lies in [0,100].
C6_ScoreBounds ==
    analysis.state = "scored" =>
        LET r == analysis.result
        IN /\ 0 <= r.total_score
           /\ r.total_score <= Tenths(r.max_possible_score)
           /\ 0 <= r.percentage
           /\ r.percentage <= P(100, 0)

\* C6 witness: a case of two criteria scored strictly between 0 and the maximum
C6_Witness ==
    /\ analysis.state = "scored"
    /\ Len(criteria) = 2
    /\ 0 < analysis.result.total_score
    /\ analysis.result.total_score < Tenths(analysis.result.max_possible_score)
    /\ 0 < analysis.result.percentage
    /\ analysis.result.percentage < P(100, 0)

\* C7: max_possible_score is the sum of the weights of all criteria (1 for a
\* criterion without a weight), whatever the case holds; a criterion whose
\* metric is not found scores 0 and contributes 0, and its weight still counts.
C7_MaxIsSumOfWeights ==
    analysis.state = "scored" =>
        LET r == analysis.result
        IN /\ r.max_possible_score =
                  SumFrom([i \in 1..Len(criteria) |->
                              IF criteria[i].weight.has THEN criteria[i].weight.v ELSE 1], 1)
           /\ Len(r.metric_scores) = Len(criteria)
           /\ \A i \in 1..Len(criteria) :
                  r.metric_scores[i].actual_value = NotFound =>
                      /\ r.metric_scores[i].score = 0
                      /\ r.metric_scores[i].weighted_contribution = 0

\* C7 witness: a case without a Debt metric scored against a Revenue and a Debt
\* criterion of weight 30 each: the Debt criterion scores 0 and the maximum is 60
C7_Witness ==
    /\ analysis.state = "scored"
    /\ criteria = <<ScenarioA(Str_Revenue), ScenarioA(Str_Debt)>>
    /\ caseRecord = <<[key |-> Str_Revenue, val |-> Number(150000)]>>
    /\ analysis.result.metric_scores[2].actual_value = NotFound
    /\ analysis.result.metric_scores[2].score = 0
    /\ analysis.result.total_score = Tenths(30)
    /\ analysis.result.max_possible_score = 60

\* C9: under the interval policy the score is that of the first interval, in
\* declared order, whose range holds the value, and 0 when no interval does;
\* the weighted contribution is score/10 x weight.
C9_FirstIntervalWins ==
    analysis.state = "scored" =>
        \A i \in 1..Len(criteria) :
            LET ms == analysis.result.metric_scores[i]
                intervals == criteria[i].scoring_intervals
                matching == {k \in 1..Len(intervals) :
                                RangeMatches(intervals[k].range, ms.actual_value)}
            IN (intervals # <<>> /\ ms.actual_value # NotFound) =>
                   /\ matching = {} => ms.score = 0
                   /\ matching # {} =>
                          \E k \in matching :
                              /\ \A j \in matching : k <= j
                              /\ ms.score = intervals[k].score
                   /\ ms.weighted_contribution = ms.score * ms.weight

\* C9 witness: intervals <50000 -> 2, 50000-150000 -> 6, >150000 -> 10 with
\* weight 20 and value 200000 give score 10 and contribution 20; beside it a
\* table whose first two ranges both hold 200000 gives the first one's score
C9_Witness ==
    /\ analysis.state = "scored"
    /\ Len(criteria) = 2
    /\ criteria[1] = ScenarioB
    /\ criteria[2].scoring_intervals = OverlappingIntervals
    /\ analysis.result.metric_scores[1].actual_value = Number(200000)
    /\ analysis.result.metric_scores[1].score = 10
    /\ analysis.result.metric_scores[1].weighted_contribution = Tenths(20)
    /\ analysis.result.metric_scores[2].score = 6

\* C10: under the threshold policy the score is 10 exactly when the value is
\* found, numeric and within [min_value, max_value] (an absent bound not
\* limiting), and 0 otherwise; the weighted contribution is score/10 x weight.
C10_ThresholdAllOrNothing ==
    analysis.state = "scored" =>
        \A i \in 1..Len(criteria) :
            LET c == criteria[i]
                ms == analysis.result.metric_scores[i]
                value == ms.actual_value
                within == /\ value # NotFound
                          /\ value.t = "number"
                          /\ ~(c.min_value.has /\ value.n < c.min_value.v)
                          /\ ~(c.max_value.has /\ value.n > c.max_value.v)
            IN (c.scoring_intervals = <<>> /\ (c.min_value.has \/ c.max_value.has)) =>
                   /\ ms.score \in {0, 10}
                   /\ (ms.score = 10) = within
                   /\ ms.weighted_contribution = (IF within THEN Tenths(ms.weight) ELSE 0)

\* C10 witness: {weight 30, min_value 100000} gives 150000 score 10 and
\* contribution 30, and gives 50000 score 0 and contribution 0
C10_Witness ==
    /\ analysis.state = "scored"
    /\ criteria = <<ScenarioA(Str_Revenue), ScenarioA(Str_Debt)>>
    /\ analysis.result.metric_scores[1].actual_value = Number(150000)
    /\ analysis.result.metric_scores[1].score = 10
    /\ analysis.result.metric_scores[1].weighted_contribution = Tenths(30)
    /\ analysis.result.metric_scores[2].actual_value = Number(50000)
    /\ analysis.result.metric_scores[2].score = 0
    /\ analysis.result.metric_scores[2].weighted_contribution = 0

-----------------------------------------------------------------------------
(* Properties of the ideal value (SpecViews) *)

\* the text a scoring interval declares its range with
RangeText(interval) ==
    IF interval.range # <<>> THEN interval.range
    ELSE IF interval.interval # <<>> THEN interval.interval
    ELSE interval.condition

\* the ideal values the rule allows: the range of the first interval of score 10,
\* or of an interval of the highest score when none scores 10
IdealByRule(intervals) ==
    LET tens == {k \in 1..Len(intervals) : intervals[k].score = 10}
    IN IF tens # {}
       THEN {RangeText(intervals[CHOOSE k \in tens : \A j \in tens : k <= j])}
       ELSE {RangeText(intervals[k]) :
                k \in {k \in 1..Len(intervals) :
                          \A j \in 1..Len(intervals) : intervals[j].score <= intervals[k].score}}

\* the comparison shows the criterion of criteriaData[i]
ComparisonOf(i) ==
    /\ comparisonData.has
    /\ comparisonData.criterionName = criteriaData[i].parameter

\* C11: for every criterion with scoring intervals, the Criteria tab and the
\* Ideal / Required row of the comparison both show the range of the first
\* interval of score 10, or of the highest-scoring interval when none scores 10.
C11_IdealValueRule ==
    mounted =>
        \A i \in 1..Len(criteriaData) :
            criteriaData[i].scoring_intervals # <<>> =>
                /\ criteriaTabIdeal[i] \in IdealByRule(criteriaData[i].scoring_intervals)
                /\ ComparisonOf(i) =>
                       comparisonData.requiredValueDisplay
                           \in IdealByRule(criteriaData[i].scoring_intervals)

\* the Criteria tab alone, on intervals that declare their range under `interval`
C11_CriteriaTabOnInterval ==
    mounted =>
        \A i \in 1..Len(criteriaData) :
            LET intervals == criteriaData[i].scoring_intervals
            IN (intervals # <<>> /\ \A k \in 1..Len(intervals) : intervals[k].interval # <<>>)
                   => criteriaTabIdeal[i] \in IdealByRule(intervals)

\* the Ideal / Required row never shows the ideal value of the intervals: the
\* entries of criteriaForComparison are named by index, not by parameter
C11_ComparisonShowsMinValue ==
    mounted =>
        \A i \in 1..Len(criteriaData) :
            ComparisonOf(i) =>
                comparisonData.requiredValueDisplay =
                    IF criteriaData[i].min_value.has
                    THEN NumberToString(criteriaData[i].min_value.v)
                    ELSE Str_NA

-----------------------------------------------------------------------------
(* Properties of the comparison (SpecViews) *)

\* the metric scores of a result whose name is the criterion name (letter case and
\* surrounding blanks apart)
NamedMetrics(result, name) ==
    {k \in 1..Len(result.metric_scores) :
        /\ result.metric_scores[k].metric_name # <<>>
        /\ Trim(ToLowerCase(result.metric_scores[k].metric_name)) = Trim(ToLowerCase(name))}

\* the row of a result: its own resolved value and 0-10 score for the criterion
\* (a null or blank value resolves to 'N/A', a missing score to 0), 'N/A' and 0
\* when it has no metric score of that name
RowOf(result, name) ==
    LET named == NamedMetrics(result, name)
        metric == result.metric_scores[CHOOSE k \in named : \A j \in named : k <= j]
    IN IF named = {}
       THEN [caseName |-> result.case_id, actualValue |-> Str_NA, score |-> 0]
       ELSE [caseName |-> result.case_id,
             actualValue |-> IF metric.actual_value.t = "null"
                                \/ Trim(StringOf(metric.actual_value)) = <<>>
                             THEN Str_NA
                             ELSE StringOf(metric.actual_value),
             score |-> IF metric.score.has THEN metric.score.v ELSE 0]

\* C12: the comparison has one row per case, row i is the row of the i-th result
\* of the analysis and carries that case's resolved value and 0-10 score for the
\* selected criterion.
C12_RowsInCaseOrder ==
    comparisonData.has =>
        /\ Len(comparisonData.caseComparisons) = Len(received)
        /\ \A i \in 1..Len(received) :
               comparisonData.caseComparisons[i] = RowOf(received[i], comparisonData.criterionName)

\* every row is the row of the case it names, whatever its place
C12_RowsCarryOwnCase ==
    comparisonData.has =>
        \A i \in 1..Len(comparisonData.caseComparisons) :
            \E j \in 1..Len(received) :
                comparisonData.caseComparisons[i] = RowOf(received[j], comparisonData.criterionName)

\* C13: a case with no metric score for the selected criterion is shown with 'N/A'
\* and score 0, and every other case still has its row with its own value and score.
C13_MissIsLocal ==
    comparisonData.has =>
        \A j \in 1..Len(received) :
            \E i \in 1..Len(comparisonData.caseComparisons) :
                LET row == comparisonData.caseComparisons[i]
                IN /\ row.caseName = received[j].case_id
                   /\ row = RowOf(received[j], comparisonData.criterionName)
                   /\ NamedMetrics(received[j], comparisonData.criterionName) = {}
                          => row.actualValue = Str_NA /\ row.score = 0

\* a comparison of two cases: one without a metric score for the criterion, shown
\* with 'N/A' and 0, beside one shown with its value 200 and its score 10
C13_Witness ==
    /\ comparisonData.has
    /\ comparisonData.criterionName = Str_Revenue
    /\ Len(received) = 2
    /\ NamedMetrics(received[1], Str_Revenue) = {}
    /\ received[1].metric_scores # <<>>
    /\ \E i, j \in 1..2 :
           /\ comparisonData.caseComparisons[i] =
                  [caseName |-> 1, actualValue |-> Str_NA, score |-> 0]
           /\ comparisonData.caseComparisons[j] =
                  [caseName |-> 2, actualValue |-> <<"2", "0", "0">>, score |-> 10]

-----------------------------------------------------------------------------
(* Properties of the summary figures (SpecViews) *)

\* the sum of the percentages of the analysis, a missing percentage counting 0
RECURSIVE SumOfPercentages(_)
SumOfPercentages(rs) ==
    IF rs = <<>> THEN 0
    ELSE (IF Head(rs).percentage.has THEN Head(rs).percentage.v ELSE 0)
         + SumOfPercentages(Tail(rs))

\* C14: avgScore is the arithmetic mean of the percentages of all results, and 0
\* when there are no results.
C14_AverageIsMean ==
    mounted =>
        /\ Len(received) = 0 => avgScore.num = 0
        /\ Len(received) > 0 =>
               avgScore.num * Len(received) = avgScore.den * SumOfPercentages(received)

\* the mean of 85 and 20.5 is 52.75 (in tenths of a percent, 1055 / 2)
C14_Witness ==
    /\ mounted
    /\ Len(received) = 2
    /\ received[1].percentage = Pct(85, 0)
    /\ received[2].percentage = Pct(20, 5)
    /\ avgScore = [num |-> 1055, den |-> 2]

\* the number of results of the analysis with the status
WithStatus(status) ==
    Cardinality({i \in 1..Len(received) : received[i].eligibility_status = status})

\* C15: the counts of Eligible, Review Required and Not Eligible are each the
\* number of results with that status, and the three sum to the number of results.
C15_BreakdownCounts ==
    mounted =>
        /\ approvedCount = WithStatus("Eligible")
        /\ reviewCount = WithStatus("Review Required")
        /\ rejectedCount = WithStatus("Not Eligible")
        /\ approvedCount + reviewCount + rejectedCount = Len(received)

\* two results, one Eligible and one Review Required
C15_Witness ==
    /\ mounted
    /\ Len(received) = 2
    /\ approvedCount = 1
    /\ reviewCount = 1
    /\ rejectedCount = 0

\* the criteria that occur in some result of the analysis
CriteriaOfResults ==
    UNION {{received[i].individual_scores[k].key : k \in 1..Len(received[i].individual_scores)} :
              i \in 1..Len(received)}

\* the score of a result for a criterion, 0 when it has none
ScoreFor(result, name) ==
    LET at == {k \in 1..Len(result.individual_scores) : result.individual_scores[k].key = name}
    IN IF at = {} THEN 0 ELSE result.individual_scores[CHOOSE k \in at : TRUE].value

RECURSIVE SumOfScores(_, _)
SumOfScores(rs, name) ==
    IF rs = <<>> THEN 0 ELSE ScoreFor(Head(rs), name) + SumOfScores(Tail(rs), name)

\* the radar chart holds the mean of the criterion over all cases of the analysis
HoldsMean(name) ==
    \E n \in 1..Len(radarData.labels) :
        /\ radarData.labels[n] = name
        /\ radarData.data[n].num * Len(received)
               = radarData.data[n].den * SumOfScores(received, name)

\* C16: the per-parameter analysis holds, for every criterion that occurs in any
\* result, the mean of its score over all cases (a case without it counting 0,
\* the divisor being the number of cases).
C16_EveryCriterionAveraged ==
    (mounted /\ Len(received) > 0) =>
        /\ radarData.has
        /\ \A name \in CriteriaOfResults : HoldsMean(name)

\* every criterion the radar chart does show is averaged over all cases
C16_ShownCriteriaAveraged ==
    (mounted /\ Len(received) > 0) =>
        /\ radarData.has
        /\ \A n \in 1..Len(radarData.labels) : HoldsMean(radarData.labels[n])

-----------------------------------------------------------------------------
(* Properties of the upload workflow (SpecUpload) *)

\* the data object of onUpload with every part of it there
Complete(data) ==
    /\ data.uploadResult # <<>>
    /\ data.criteriaData = "criteria"
    /\ data.cases # <<>>
    /\ data.analysisResult = "analysis"
    /\ data.dashboardData = "dashboard"

\* C17: an analysis is published whole and once: the analysis the page holds
\* is either none or the complete tuple of upload result, criteria, cases,
\* analysis result and dashboard data of a delivered file, and onUpload is
\* called at most once per dropped file, exactly when the file is delivered.
C17_PublishedOnceAndWhole ==
    /\ \A w \in DOMAIN flows :
          /\ flows[w].calls <= 1
          /\ flows[w].calls = 1 <=> flows[w].outcome = "delivered"
    /\ analysisData.has =>
          /\ Complete(analysisData)
          /\ flows[analysisData.file].outcome = "delivered"

\* C17 witness: the analysis of a workbook with two case sheets was delivered, by one call
C17_Witness ==
    /\ analysisData.has
    /\ Len(analysisData.uploadResult) = 3
    /\ Len(analysisData.cases) = 2
    /\ flows[analysisData.file].calls = 1

\* the response to the request flow w awaits ends that way in this step
Responds(w, stage, outcomes) ==
    /\ flows[w].pc = stage
    /\ flows'[w] # flows[w]
    /\ flows'[w].last[1] = stage
    /\ flows'[w].last[2] \in outcomes

\* the workflow of file w ends in this step with an error and without an analysis
Aborts(w) ==
    /\ flows'[w].pc = "done"
    /\ flows'[w].outcome = "failed"
    /\ flows'[w].calls = 0
    /\ analysisData' = analysisData
    /\ Mounted(w) => error' # NoError /\ uploadProgress' = 0

\* in this step the case sheet flow w awaits is skipped: the cases collected
\* so far are kept and the workflow goes on to the next sheet, or past the last
\* sheet to the analysis of the cases collected (if there are any at all)
SkipsSheet(w) ==
    LET f == flows[w]
        g == flows'[w]
    IN IF f.sheet < Len(Slice1(f.sheets))
       THEN g.pc = "cases" /\ g.sheet = f.sheet + 1 /\ g.allCases = f.allCases
       ELSE IF f.allCases # <<>>
       THEN g.pc = "analyze" /\ g.allCases = f.allCases
       ELSE g.pc = "done" /\ g.outcome = "failed"

\* C18: failures propagate by kind: a failed criteria request or a failed
\* /analyze request aborts the workflow (error shown, no analysis delivered),
\* whereas a failed request of one case sheet is isolated: the sheet is skipped
\* and the workflow goes on with the other sheets.
C18_FailuresByKind ==
    [][\A w \in DOMAIN flows :
          /\ Responds(w, "criteria", {"notOk", "rejected"}) => Aborts(w)
          /\ Responds(w, "analyze", {"notOk", "rejected"}) => Aborts(w)
          /\ Responds(w, "cases", {"notOk", "rejected"}) => SkipsSheet(w)]_vars

\* C18, for the failures the code handles by kind: an error response to the
\* criteria or the /analyze request, or a request of those that does not
\* complete, aborts the workflow; an error response to a case sheet request
\* skips that sheet only.
C18_ErrorResponsesByKind ==
    [][\A w \in DOMAIN flows :
          /\ Responds(w, "criteria", {"notOk", "rejected"}) => Aborts(w)
          /\ Responds(w, "analyze", {"notOk", "rejected"}) => Aborts(w)
          /\ Responds(w, "cases", {"notOk"}) => SkipsSheet(w)
          /\ Responds(w, "cases", {"rejected"}) => Aborts(w)]_vars

\* an error response skipped the first case sheet and the analysis of the
\* second sheet's cases was delivered
C18_SkippedAndDelivered ==
    /\ analysisData.has
    /\ Len(analysisData.uploadResult) = 3
    /\ analysisData.cases = <<analysisData.uploadResult[3]>>

IsCasesRequest(r) == r.kind = "cases"

\* the sheets after the first, in workbook order
SubsequentSheets(sheets) == [i \in 1..(Len(sheets) - 1) |-> sheets[i + 1]]

\* C19: the criteria are read from the first sheet of the workbook and the
\* cases from the sheets after it: the criteria request names sheets[0], the
\* case requests name the sheets after the first one by one in workbook order
\* (never the first), and the /analyze request carries criteria_sheet =
\* sheets[0] and cases_sheets = every sheet after the first, in workbook order.
C19_CriteriaFirstCasesRest ==
    \A w \in DOMAIN flows :
        LET f == flows[w]
            caseRequests == SelectSeq(f.requests, IsCasesRequest)
        IN /\ \A k \in 1..Len(f.requests) :
                 LET r == f.requests[k]
                 IN /\ r.kind = "criteria" => r.sheet = f.sheets[1]
                    /\ r.kind = "cases" => r.sheet # f.sheets[1]
                    /\ r.kind = "analyze" =>
                          /\ r.sheet = f.sheets[1]
                          /\ r.cases_sheets = SubsequentSheets(f.sheets)
                          /\ Len(caseRequests) = Len(f.sheets) - 1
           /\ \A j \in 1..Len(caseRequests) : caseRequests[j].sheet = f.sheets[j + 1]

\* C19 witness: the /analyze request of a workbook of three sheets was sent,
\* after the requests of 'Criteria' as criteria and of 'Case 1' and 'Case 2' as cases
C19_Witness ==
    \E w \in DOMAIN flows :
        /\ flows[w].pc = "dashboard"
        /\ Len(flows[w].sheets) = 3
        /\ \E k \in 1..Len(flows[w].requests) :
              /\ flows[w].requests[k].kind = "analyze"
              /\ flows[w].requests[k].sheet = SheetName(1)
              /\ flows[w].requests[k].cases_sheets = <<SheetName(2), SheetName(3)>>

\* the last characters of the name are those of the extension
HasExtension(name, extension) ==
    /\ Len(name) >= Len(extension)
    /\ \A i \in 1..Len(extension) : name[Len(name) - Len(extension) + i] = extension[i]

\* file w is dropped in this step
Dropped(w) == flows[w].pc = "none" /\ flows'[w].pc # "none"

RequestOrder(sheets) ==
    <<Request("upload", <<>>, <<>>), Request("criteria", sheets[1], <<>>)>>
    \o [i \in 1..(Len(sheets) - 1) |-> Request("cases", sheets[i + 1], <<>>)]
    \o <<Request("analyze", sheets[1], SubsequentSheets(sheets)),
         Request("dashboard", <<>>, <<>>)>>

\* flow w sends a request in this step
Requests(w) == flows'[w].pc # "done" /\ flows'[w].requests # flows[w].requests

\* C21: the workflow sends its requests in the order upload, criteria, cases
\* (sheet after sheet), analyze, dashboard, each one only when the response to
\* the one before it has come; analyze only after the upload and the criteria
\* succeeded, dashboard only after analyze succeeded and returned its result,
\* and onUpload is called only when the dashboard request succeeded.
C21_RequestsInOrder ==
    [][\A w \in DOMAIN flows :
          LET f == flows[w]
              g == flows'[w]
              n == Len(g.requests)
          IN /\ Requests(w) =>
                  /\ n = Len(f.requests) + 1
                  /\ SubSeq(g.requests, 1, n - 1) = f.requests
                  /\ n = 1 => g.requests[1].kind = "upload" /\ f.pc = "none"
                  /\ n > 1 =>
                        /\ g.requests = SubSeq(RequestOrder(g.sheets), 1, n)
                        /\ f.pc = g.requests[n - 1].kind
                        /\ g.last[1] = g.requests[n - 1].kind
                        /\ g.last[2] # "rejected"
                        /\ g.requests[n - 1].kind # "cases" => g.last[2] = "ok"
                  /\ g.requests[n].kind = "analyze" =>
                        g.sheets # <<>> /\ g.criteriaData = "criteria"
                  /\ g.requests[n].kind = "dashboard" =>
                        g.last = <<"analyze", "ok">> /\ g.analysisResult = "analysis"
             /\ g.calls # f.calls =>
                  /\ f.pc = "dashboard"
                  /\ g.last = <<"dashboard", "ok">>
                  /\ f.analysisResult = "analysis"]_vars

\* C21 witness: a workflow on a workbook of three sheets has sent its six
\* requests, the dashboard request last
C21_Witness ==
    \E w \in DOMAIN flows :
        /\ Len(flows[w].sheets) = 3
        /\ flows[w].requests = RequestOrder(flows[w].sheets)
        /\ flows[w].last = <<"analyze", "ok">>

\* the upload request of file w has failed, and the file is still the one shown
\* (not removed, no file dropped after it) by the FileUpload that took it
UploadFailedAndShown(w) ==
    /\ flows[w].last[1] = "upload"
    /\ flows[w].last[2] \in {"notOk", "rejected"}
    /\ uploadedFile = w
    /\ Mounted(w)

\* C22: when the upload request fails (no response, or a response that is
\* not OK), the error is set, onUpload is not called, and uploadProgress is 0
\* and stays 0 as long as the file is neither removed nor replaced: no later
\* tick of the simulated progress raises it.
C22_FailedUploadKeepsZero ==
    \A w \in DOMAIN flows :
        UploadFailedAndShown(w) =>
            /\ error # NoError
            /\ flows[w].calls = 0
            /\ uploadProgress = 0

\* C22 without the timer: after a failed upload the error is set and onUpload
\* is not called; the progress is 0 once the progressInterval has stopped or
\* as long as it has not fired again
C22_FailedUploadShowsError ==
    \A w \in DOMAIN flows :
        UploadFailedAndShown(w) =>
            /\ error # NoError
            /\ flows[w].calls = 0
            /\ uploadProgress \in {0, 10, 20, 30, 40, 50, 60, 70, 80, 90}
            /\ ~flows[w].timer => uploadProgress \in {0, 90}

\* the progress of a file whose upload failed was raised by a tick that came after
C22_RaisedAfterFailure ==
    \E w \in DOMAIN flows : UploadFailedAndShown(w) /\ uploadProgress = 30

\* the workflow of file w stops in this step with that error: it has sent no
\* analyze and no dashboard request, calls no onUpload, and resets the progress
StopsWith(w, message) ==
    /\ flows'[w].pc = "done"
    /\ flows'[w].outcome = "failed"
    /\ flows'[w].calls = 0
    /\ analysisData' = analysisData
    /\ \A k \in 1..Len(flows[w].requests) :
          flows[w].requests[k].kind \notin {"analyze", "dashboard"}
    /\ Mounted(w) => error' = message /\ uploadProgress' = 0

\* C24: a workbook without sheets stops the workflow with 'No sheets found in
\* the Excel file', and a workbook none of whose case sheets yields a case
\* stops it with 'No case data found in the Excel file': no /analyze and no
\* /dashboard request is sent, onUpload is not called, uploadProgress is reset
\* to 0.  With a sheet, and with a case, the workflow goes on.
C24_NoSheetsNoCases ==
    [][\A w \in DOMAIN flows :
          LET f == flows[w]
              g == flows'[w]
          IN /\ Responds(w, "upload", {"ok"}) =>
                  IF g.pc = "done"
                  THEN StopsWith(w, "No sheets found in the Excel file")
                  ELSE g.pc = "criteria" /\ g.sheets # <<>>
             /\ Responds(w, "criteria", {"ok"}) =>
                  IF Len(f.sheets) = 1
                  THEN StopsWith(w, "No case data found in the Excel file")
                  ELSE g.pc = "cases"
             /\ Responds(w, "cases", {"ok", "notOk"}) /\ f.sheet = Len(f.sheets) - 1 =>
                  IF g.pc = "done"
                  THEN f.allCases = <<>> /\ StopsWith(w, "No case data found in the Excel file")
                  ELSE g.pc = "analyze" /\ g.allCases # <<>>]_vars

\* C24 witness: neither 'Case 1' nor 'Case 2' gave a case (the last one could
\* not be read): the workflow has stopped with the error and progress 0
C24_Witness ==
    \E w \in DOMAIN flows :
        /\ flows[w].outcome = "failed"
        /\ flows[w].last = <<"cases", "notOk">>
        /\ flows[w].calls = 0
        /\ uploadedFile = w
        /\ error = "No case data found in the Excel file"
        /\ uploadProgress = 0

-----------------------------------------------------------------------------
(* Properties of the upload view with several files (SpecRace) *)

ProgressValues == {0, 10, 20, 30, 40, 50, 60, 70, 80, 90, 100}

\* the upload request of file w has returned an OK response
UploadSucceeded(w) ==
    /\ flows[w].last[1] # "none"
    /\ flows[w].last[1] = "upload" => flows[w].last[2] = "ok"

\* the file card of the upload view shows the badge 'Uploaded'
ShowsUploaded == analysisData = NoData /\ uploadedFile # 0 /\ uploadProgress = 100

\* C23: uploadProgress only takes the values 0, 10, ..., 90 and 100 (the
\* simulated progress stops at 90), and the badge 'Uploaded' (progress 100) is
\* shown for the current file only after the upload request of that same file
\* returned an OK response.
C23_UploadedOnlyAfterSuccess ==
    /\ uploadProgress \in ProgressValues
    /\ ShowsUploaded => UploadSucceeded(uploadedFile)

\* the values alone
C23_ProgressValues == uploadProgress \in ProgressValues

\* the badge 'Uploaded' on a file whose upload request is still awaited
C23_UploadedWhileUploading == ShowsUploaded /\ flows[uploadedFile].pc = "upload"

\* the workflow of file w is between its drop and its completion
InFlight(w) == flows[w].pc \notin {"none", "done"}

\* C25: isLoading is true from the drop of a file to the completion of its
\* workflow (so the dropzone is disabled and the remove button hidden
\* meanwhile), and at most one workflow is in flight at any time.
C25_LoadingWhileInFlight ==
    /\ \A w \in DOMAIN flows : InFlight(w) => isLoading
    /\ Cardinality({w \in DOMAIN flows : InFlight(w)}) <= 1

\* isLoading as the code has it
C25_NeverLoading == ~isLoading

\* two workflows in flight, the first file removed while it was uploading
C25_TwoInFlight ==
    /\ Cardinality({w \in DOMAIN flows : InFlight(w)}) = 2
    /\ uploadedFile = 2

\* C26: the analysis on the dashboard is that of the file selected last: a
\* workflow calls onUpload only for the file the upload view shows (not for a
\* removed one), and a step of the workflow of a file that is no longer the
\* one shown changes neither the analysis nor the progress nor the error of
\* the file shown.
C26_MostRecentFile ==
    [][\A w \in DOMAIN flows :
          /\ flows'[w].calls # flows[w].calls => uploadedFile = w
          /\ (flows'[w] # flows[w] /\ flows[w].pc # "none" /\ uploadedFile \notin {0, w}) =>
                /\ analysisData' = analysisData
                /\ uploadProgress' = uploadProgress
                /\ error' = error]_vars

\* the dashboard shows the analysis of a file that was removed
C26_RemovedFileDelivered ==
    /\ analysisData.has
    /\ analysisData.file = 1
    /\ uploadedFile = 0

\* the dashboard shows the analysis of the first file while the second was the one selected
C26_EarlierFileDelivered ==
    /\ analysisData.has
    /\ analysisData.file = 1
    /\ uploadedFile = 2

\* C27: the application shows the upload view when it holds no analysis data
\* and the dashboard view when it holds some.  It starts in the upload view;
\* the only step to the dashboard view is an onUpload call (after an OK
\* dashboard response), the only step back is handleReset, which discards the
\* analysis data, and the dashboard view always has analysis data.
C27_TwoViews ==
    /\ View = "upload"
    /\ [][/\ View' = "dashboard" <=> analysisData'.has
          /\ (View = "upload" /\ View' = "dashboard") =>
                \E w \in DOMAIN flows :
                    /\ flows'[w].calls = flows[w].calls + 1
                    /\ flows'[w].last = <<"dashboard", "ok">>
                    /\ analysisData'.file = w
          /\ (\E w \in DOMAIN flows : flows'[w].calls # flows[w].calls) => View' = "dashboard"
          /\ (View = "dashboard" /\ View' = "upload") =>
                instance' = instance + 1 /\ analysisData' = NoData /\ flows' = flows
          /\ instance' # instance => View = "dashboard" /\ View' = "upload"]_vars

\* C27 witness: an analysis was delivered and shown, and 'Upload New File' has
\* brought the upload view back, with no analysis data
C27_Witness ==
    /\ View = "upload"
    /\ instance = 2
    /\ \E w \in DOMAIN flows : flows[w].outcome = "delivered"

====
